---- MODULE Spec2Model ----
(***************************************************************************)
(* Scope building, reference resolution and field expansion of the Thrift  *)
(* code generator (Go, TypeScript and OpenAPI backends).                   *)
(*                                                                         *)
(* Identifiers are TLA+ strings; "a" \o "b" is Go's string concatenation.  *)
(* A Go pointer that may be nil is a sequence of length 0 (nil) or 1.      *)
(***************************************************************************)
EXTENDS Integers, Sequences, FiniteSets, TLC

VARIABLES
    ast,        \* the IDL tree handed to the backends (s.ast)
    parsed,     \* history: the tree exactly as the parser produced it
    features,   \* Go feature flags (cu.Features())
    pc,         \* position of Scope.init of the Go backend
    idx,        \* index of the next declaration of the current installNames loop
    includes,   \* Scope.includes of the Go scope
    globals,    \* Scope.globals, the file-level namespace
    built,      \* struct-likes built so far (structs, unions, exceptions, synthesized)
    services,   \* services built so far
    buildErr,   \* the error Scope.init returns ("" = nil)
    escaped,    \* TRUE when a panic left Scope.init unrecovered
    tsScope,    \* TypeScript Scope.ExpandedStructs (<<>> before BuildScope)
    oaScope,    \* OpenAPI Scope.ExpandedStructs (<<>> before BuildScope)
    ns,         \* a namespace under test (allocator specification)
    nsLog,      \* the Add / MustReserve calls made on ns, with their results
    query,      \* the field handed to the reference resolvers
    answer,     \* what each backend's resolver returned for query
    backend,    \* the backend whose Generate runs ("typescript" or "openapi")
    trees,      \* the files executeTemplates ranges over
    fileNo,     \* how many of them the loop has taken
    steps,      \* the renders renderOneFile still has to make for the current file
    rpc,        \* position of Generate
    rootScope,  \* CodeUtils.rootScope (nil before the first SetRootScope)
    uast,       \* openapi CodeUtils.ast (nil before the first SetAST)
    w,          \* the buffer the running render holds (<<>> when none)
    pool,       \* poolBuffer: buffers made, free and checked out, Get and Put counts
    contents,   \* res.Contents
    err,        \* the backend's err field ("" = nil)
    response,   \* what buildResponse returned (<<>> before it ran)
    lookups,    \* the results GetExpandedFields gave the templates
    ff,         \* the channel of resolveTypesAndValues: fields sent, closed or not
    resolving,  \* the field the consumer took from ff and has not resolved yet (0 = none)
    resolved,   \* the resolved type names of fields, typedefs, constants and functions
    libNotUsed, \* imports.libNotUsed of the Go scope
    firstBuild, \* what the first build of the file produced, once a second one has begun
    handle,     \* the copy of the features a caller got from cu.Features()
    tagLog      \* the SetFeatures and GenFieldTags calls made on a CodeUtils, in order

tagVars == <<handle, tagLog>>

renderVars == <<backend, trees, fileNo, steps, rpc, rootScope, uast, w, pool, contents, err,
                response, lookups, tagVars>>

resolveVars == <<ff, resolving, resolved, libNotUsed, firstBuild>>

vars == <<ast, parsed, features, pc, idx, includes, globals, built, services, buildErr,
          escaped, tsScope, oaScope, ns, nsLog, query, answer, renderVars, resolveVars>>

(***************************************************************************)
(* Bounds of the model.                                                    *)
(***************************************************************************)
MaxCalls == 3       \* calls made on the namespace under test
MaxFields == 2      \* declared fields of the parent structure
MaxTagCalls == 5    \* SetFeatures and GenFieldTags calls made on one CodeUtils

(***************************************************************************)
(* Small helpers.                                                          *)
(***************************************************************************)
RECURSIVE Flatten(_)
Flatten(ss) == IF ss = <<>> THEN <<>> ELSE Head(ss) \o Flatten(Tail(ss))

\* int32 arithmetic of Go: sums and products wrap modulo 2^32 into
\* [MinInt32, MaxInt32].  No intermediate value leaves that range.
MaxInt32 == 2147483647
MinInt32 == (-2147483647) - 1

AddInt32(a, b) ==
    IF b > 0 /\ a > MaxInt32 - b THEN (a + MinInt32) + (b + MinInt32)
    ELSE IF b < 0 /\ a < MinInt32 - b THEN (a - MinInt32) + (b - MinInt32)
    ELSE a + b

RECURSIVE MulInt32(_, _)
MulInt32(a, n) ==
    IF n = 0 THEN 0
    ELSE IF n % 2 = 1 THEN AddInt32(a, MulInt32(a, n - 1))
    ELSE LET h == MulInt32(a, n \div 2) IN AddInt32(h, h)

(***************************************************************************)
(* Namespace allocator (pkg/namespace, UnderscoreSuffix policy).           *)
(* A namespace is a function from logical keys to allocated names.         *)
(***************************************************************************)
EmptyNs == <<>>

NsGet(n, key) == IF key \in DOMAIN n THEN n[key] ELSE ""

NsUsed(n, name) == \E k \in DOMAIN n : n[k] = name

NsBind(n, name, key) == [k \in (DOMAIN n) \cup {key} |-> IF k = key THEN name ELSE n[k]]

\* Collision policy: append an underscore and retry until the name is free.
RECURSIVE NsSuggest(_, _)
NsSuggest(n, name) == IF NsUsed(n, name) THEN NsSuggest(n, name \o "_") ELSE name

\* A mutation of NsAddName: the candidate is taken as it is, free or not.
NsAddNameNoRetry(n, name, key) == IF key \in DOMAIN n THEN n[key] ELSE name

\* Add(candidateName, logicalKey): the allocated name.
NsAddName(n, name, key) == IF key \in DOMAIN n THEN n[key] ELSE NsSuggest(n, name)

\* Add(candidateName, logicalKey): the namespace afterwards.
NsAdd(n, name, key) == IF key \in DOMAIN n THEN n ELSE NsBind(n, NsAddName(n, name, key), key)

\* MustReserve(name, key) succeeds unless name is held by a different key.
NsCanReserve(n, name, key) == \A k \in DOMAIN n : n[k] = name => k = key

NsReserve(n, name, key) == NsBind(n, name, key)

(***************************************************************************)
(* The parser's AST (external collaborator), as far as the backends read   *)
(* it.  A type name is the sequence of its dot-separated parts, so that    *)
(* strings.Split(name, ".") is the sequence itself.                        *)
(***************************************************************************)
RECURSIVE JoinDots(_)
JoinDots(parts) ==
    IF parts = <<>> THEN ""
    ELSE IF Len(parts) = 1 THEN parts[1]
    ELSE parts[1] \o "." \o JoinDots(Tail(parts))

ContainsDot(parts) == Len(parts) > 1
Front(parts) == SubSeq(parts, 1, Len(parts) - 1)
Last(parts) == parts[Len(parts)]

NoRef == <<>>
Ref(i, name) == <<[Index |-> i, Name |-> name]>>

Type(cat, parts, ref) == [Category |-> cat, Name |-> parts, Reference |-> ref]

\* parser.Category.IsStructLike
IsStructLike(cat) == cat \in {"struct", "union", "exception"}

Field(id, name, type, req, anno) ==
    [ID |-> id, Name |-> name, Type |-> type, Requiredness |-> req, Expand |-> anno]

StructLike(cat, name, fields, expandable) ==
    [Category |-> cat, Name |-> name, Fields |-> fields, Expandable |-> expandable]

\* A pointer to a struct-like: File 0 is the current file, File k > 0 the
\* k-th include; List is the declaration table, Pos the 1-based position.
Ptr(file, list, pos) == <<[File |-> file, List |-> list, Pos |-> pos]>>
Nil == <<>>

FileOf(a, k) == IF k = 0 THEN a ELSE a.Includes[k].Reference[1]
Deref(a, p) == FileOf(a, p[1].File)[p[1].List][p[1].Pos]

\* 1-based position of the first declaration called name, 0 when there is none.
FirstNamed(decls, name) ==
    IF \E j \in 1..Len(decls) : decls[j].Name = name
    THEN CHOOSE j \in 1..Len(decls) :
            /\ decls[j].Name = name
            /\ \A h \in 1..(j - 1) : decls[h].Name # name
    ELSE 0

\* The first k of ks (an increasing scan) satisfying nothing more than membership.
Least(ks) == CHOOSE k \in ks : \A h \in ks : k <= h

(***************************************************************************)
(* Go backend: Scope.buildIncludes.  An unused include keeps an empty slot. *)
(***************************************************************************)
GoInclude(inc) == <<[PackageName |-> inc.PackageName, Scope |-> [ast |-> inc.Reference[1]]]>>

GoBuildIncludes(a) ==
    [k \in 1..Len(a.Includes) |-> IF a.Includes[k].Used THEN GoInclude(a.Includes[k]) ELSE Nil]

(***************************************************************************)
(* Go backend: Scope.getReferencedStruct.                                  *)
(***************************************************************************)
GoExpectedPackageName(f) == IF ContainsDot(f.Type.Name) THEN JoinDots(Front(f.Type.Name)) ELSE ""
GoExpectedTypeName(f) == IF ContainsDot(f.Type.Name) THEN Last(f.Type.Name) ELSE JoinDots(f.Type.Name)

\* One pass of the loop over s.includes in the Reference branch: the include
\* is taken when its Structs table is longer than Index and the struct found
\* by name (position ix, 0-based 0 when none is found) carries the name.
GoRefHit(incs, k, i, name) ==
    /\ incs[k] # Nil
    /\ i < Len(incs[k][1].Scope.ast.Structs)
    /\ LET structs == incs[k][1].Scope.ast.Structs
           found == FirstNamed(structs, name)
           ix == IF found = 0 THEN 1 ELSE found
       IN structs[ix].Name = name

GoByReference(a, incs, f) ==
    LET i == f.Type.Reference[1].Index
        name == GoExpectedTypeName(f)
        hits == {k \in 1..Len(incs) : GoRefHit(incs, k, i, name)}
    IN  IF hits # {}
        THEN LET k == Least(hits)
             IN Ptr(k, "Structs", FirstNamed(incs[k][1].Scope.ast.Structs, name))
        ELSE IF i < Len(a.Structs) /\ a.Structs[i + 1].Name = name
             THEN Ptr(0, "Structs", i + 1)
             ELSE Nil

\* Structs, then Unions, then Exceptions of one file, by name.
ByNameInFile(file, k, name) ==
    IF FirstNamed(file.Structs, name) # 0 THEN Ptr(k, "Structs", FirstNamed(file.Structs, name))
    ELSE IF FirstNamed(file.Unions, name) # 0 THEN Ptr(k, "Unions", FirstNamed(file.Unions, name))
    ELSE IF FirstNamed(file.Exceptions, name) # 0
         THEN Ptr(k, "Exceptions", FirstNamed(file.Exceptions, name))
         ELSE Nil

GoByName(a, incs, f) ==
    LET local == ByNameInFile(a, 0, JoinDots(f.Type.Name))
        pkg == GoExpectedPackageName(f)
        name == GoExpectedTypeName(f)
        hits == {k \in 1..Len(incs) :
                    /\ incs[k] # Nil
                    /\ ~(pkg # "" /\ incs[k][1].PackageName # pkg)
                    /\ ByNameInFile(incs[k][1].Scope.ast, k, name) # Nil}
    IN  IF local # Nil THEN local
        ELSE IF hits # {}
             THEN ByNameInFile(incs[Least(hits)][1].Scope.ast, Least(hits), name)
             ELSE Nil

GoGetReferencedStruct(a, incs, f) ==
    IF f.Type.Reference # NoRef /\ f.Type.Reference[1].Index >= 0
    THEN GoByReference(a, incs, f)
    ELSE GoByName(a, incs, f)

(***************************************************************************)
(* TypeScript backend: Scope.getReferencedStruct.                          *)
(***************************************************************************)
\* The include whose path, or the base name of whose path, is module.thrift.
TsPathMatches(inc, moduleName) ==
    \/ inc.Path.Dir \o inc.Path.Base = moduleName \o ".thrift"
    \/ inc.Path.Base = moduleName \o ".thrift"

TsGetReferencedStruct(a, f) ==
    IF ~IsStructLike(f.Type.Category) THEN Nil
    ELSE IF ~ContainsDot(f.Type.Name) THEN ByNameInFile(a, 0, JoinDots(f.Type.Name))
    ELSE IF Len(f.Type.Name) # 2 THEN Nil
    ELSE LET hits == {k \in 1..Len(a.Includes) :
                        /\ TsPathMatches(a.Includes[k], f.Type.Name[1])
                        /\ a.Includes[k].Reference # Nil
                        /\ ByNameInFile(a.Includes[k].Reference[1], k, f.Type.Name[2]) # Nil}
         IN  IF hits # {}
             THEN ByNameInFile(a.Includes[Least(hits)].Reference[1], Least(hits), f.Type.Name[2])
             ELSE Nil

(***************************************************************************)
(* OpenAPI backend: CodeUtils.getReferencedStruct.                         *)
(***************************************************************************)
OaGetReferencedStruct(a, f) ==
    IF ~IsStructLike(f.Type.Category) THEN Nil
    ELSE IF JoinDots(f.Type.Name) = "" THEN Nil
    ELSE ByNameInFile(a, 0, Last(f.Type.Name))

(***************************************************************************)
(* Files of the AST.                                                       *)
(***************************************************************************)
File(name, incs, structs, unions, exceptions, svcs) ==
    [Filename |-> name, Includes |-> incs, Structs |-> structs, Unions |-> unions,
     Exceptions |-> exceptions, Services |-> svcs,
     Enums |-> <<>>, Typedefs |-> <<>>, Constants |-> <<>>]

\* parser.Include with the Go package the import manager gives the file.
Include(dir, module, used, pkg, file) ==
    [Path |-> [Dir |-> dir, Base |-> module \o ".thrift"], Used |-> used,
     PackageName |-> pkg, Reference |-> <<file>>]

StringType == Type("string", <<"string">>, NoRef)

(***************************************************************************)
(* Values the variables hold while the part of the program they belong to  *)
(* is not running.                                                         *)
(***************************************************************************)
NoFile == File("", <<>>, <<>>, <<>>, <<>>, <<>>)
NoFeatures ==
    [GenerateSetter |-> FALSE, GenDeepEqual |-> FALSE, KeepUnknownFields |-> FALSE,
     ReorderFields |-> FALSE]

\* The channel ff as make(chan *Field) leaves it, and a scope with nothing
\* resolved.
NoChan == [sent |-> 0, closed |-> FALSE]
NoTypes == [fields |-> <<>>, typedefs |-> <<>>, constants |-> <<>>, functions |-> <<>>]

Unresolved ==
    /\ ff = NoChan /\ resolving = 0 /\ resolved = NoTypes /\ libNotUsed = {}
    /\ firstBuild = <<>>

IdleBuild ==
    /\ pc = "idle" /\ idx = 0 /\ includes = <<>> /\ globals = EmptyNs
    /\ built = <<>> /\ services = <<>> /\ buildErr = "" /\ escaped = FALSE
    /\ tsScope = <<>> /\ oaScope = <<>>
    /\ Unresolved
IdleNs == ns = EmptyNs /\ nsLog = <<>>
IdleResolve == query = <<>> /\ answer = <<>>

\* poolBuffer before any Get: sync.Pool starts empty.
EmptyPool == [made |-> 0, free |-> {}, out |-> {}, gets |-> 0, puts |-> 0]

IdleTags == handle = <<>> /\ tagLog = <<>>

IdleRender ==
    /\ backend = "" /\ trees = <<>> /\ fileNo = 0 /\ steps = <<>> /\ rpc = "idle"
    /\ rootScope = <<>> /\ uast = <<>> /\ w = <<>> /\ pool = EmptyPool
    /\ contents = <<>> /\ err = ""
    /\ response = <<>> /\ lookups = {}
    /\ IdleTags

buildVars == <<features, pc, idx, includes, globals, built, services, buildErr, escaped,
               tsScope, oaScope, resolveVars>>

(***************************************************************************)
(* Specification SpecNs: calls on one namespace.                           *)
(***************************************************************************)
NsCandidates == {"GetStatus", "GetStatus_", "Read"}
NsAddKeys == {"$get:status", "$get:Status", "$get:state"}
NsReserveNames == {"Read", "GetStatus"}
NsReserveKeys == {"$Read"}

InitNs ==
    /\ ast = NoFile /\ parsed = ast /\ features = NoFeatures
    /\ IdleBuild /\ IdleNs /\ IdleResolve /\ IdleRender

NsAddCall ==
    \E name \in NsCandidates, key \in NsAddKeys :
        /\ Len(nsLog) < MaxCalls
        /\ ns' = NsAdd(ns, name, key)
        /\ nsLog' = Append(nsLog, [op |-> "Add", name |-> name, key |-> key,
                                   res |-> NsAddName(ns, name, key), ok |-> TRUE])
        /\ UNCHANGED <<ast, parsed, buildVars, query, answer, renderVars>>

\* MustReserve panics when the name is held by a different key.
NsMustReserveCall ==
    \E name \in NsReserveNames, key \in NsReserveKeys :
        /\ Len(nsLog) < MaxCalls
        /\ ns' = IF NsCanReserve(ns, name, key) THEN NsReserve(ns, name, key) ELSE ns
        /\ nsLog' = Append(nsLog, [op |-> "MustReserve", name |-> name, key |-> key,
                                   res |-> name, ok |-> NsCanReserve(ns, name, key)])
        /\ UNCHANGED <<ast, parsed, buildVars, query, answer, renderVars>>

NextNs == NsAddCall \/ NsMustReserveCall

SpecNs == InitNs /\ [][NextNs]_vars

RECURSIVE Underscores(_)
Underscores(n) == IF n = 0 THEN "" ELSE "_" \o Underscores(n - 1)

IsSuffixed(name, res) == \E n \in 1..(MaxCalls + 1) : res = name \o Underscores(n)

FreshKey(j) == \A h \in 1..(j - 1) : nsLog[h].key # nsLog[j].key

\* C5: after any sequence of Add calls on one namespace two different
\* logical keys never hold the same allocated identifier; when two Add calls
\* propose the same candidate under different keys, the later one gets a
\* different name (the candidate with underscores appended when the first got
\* the candidate itself) and the first keeps the name it was given.
C5_DistinctKeysDistinctNames ==
    /\ \A k1, k2 \in DOMAIN ns : k1 # k2 => ns[k1] # ns[k2]
    /\ \A i, j \in 1..Len(nsLog) :
          ( /\ i < j
            /\ nsLog[i].op = "Add" /\ nsLog[j].op = "Add"
            /\ nsLog[i].name = nsLog[j].name
            /\ nsLog[i].key # nsLog[j].key )
          => /\ nsLog[j].res # nsLog[i].res
             /\ NsGet(ns, nsLog[i].key) = nsLog[i].res
             /\ (nsLog[i].res = nsLog[i].name /\ FreshKey(j))
                    => IsSuffixed(nsLog[j].name, nsLog[j].res)

\* Two Add calls proposed GetStatus under different keys: the first holds
\* GetStatus, the second GetStatus_.
C5_Witness ==
    \E i, j \in 1..Len(nsLog) :
        /\ i < j
        /\ nsLog[i].op = "Add" /\ nsLog[j].op = "Add"
        /\ nsLog[i].name = "GetStatus" /\ nsLog[j].name = "GetStatus"
        /\ nsLog[i].key # nsLog[j].key
        /\ NsGet(ns, nsLog[i].key) = "GetStatus"
        /\ NsGet(ns, nsLog[j].key) = "GetStatus_"

(***************************************************************************)
(* Specification SpecResolve: the three reference resolvers applied to one *)
(* field of a file with two includes.                                      *)
(***************************************************************************)
MaxIndex == 1       \* largest Reference.Index of a query

DeclT == StructLike("struct", "T", <<Field(1, "code", StringType, "default", <<>>)>>, <<>>)
DeclX == StructLike("struct", "X", <<Field(1, "msg", StringType, "default", <<>>)>>, <<>>)
DeclUnionT == StructLike("union", "T", <<Field(1, "code", StringType, "default", <<>>)>>, <<>>)

\* Declaration tables of an included file.
Layouts ==
    { [Structs |-> <<DeclT>>, Unions |-> <<>>],
      [Structs |-> <<DeclX, DeclT>>, Unions |-> <<>>],
      [Structs |-> <<DeclT, DeclX>>, Unions |-> <<>>],
      [Structs |-> <<DeclX>>, Unions |-> <<DeclUnionT>>],
      [Structs |-> <<DeclX>>, Unions |-> <<>>],
      [Structs |-> <<>>, Unions |-> <<DeclUnionT>>] }

\* Declaration tables of the current file.
CurrentLayouts == { <<>>, <<DeclX>>, <<DeclT>>, <<DeclX, DeclT>> }

IncludedFile(module, layout) ==
    File(module \o ".thrift", <<>>, layout.Structs, layout.Unions, <<>>, <<>>)

ResolveFiles ==
    { File("main.thrift",
           << Include("", "base", ua, "base", IncludedFile("base", la)),
              Include("../common/", "other", ub, "other", IncludedFile("other", lb)) >>,
           cur, <<>>, <<>>, <<>>) :
        la \in Layouts, lb \in Layouts, ua \in BOOLEAN, ub \in BOOLEAN, cur \in CurrentLayouts }

Queries ==
    { Field(1, "f", Type(cat, name, ref), "default", <<>>) :
        cat \in {"struct", "union"},
        name \in {<<"T">>, <<"base", "T">>, <<"other", "T">>},
        ref \in {NoRef} \cup {Ref(i, "T") : i \in 0..MaxIndex} }

InitResolve ==
    /\ ast \in ResolveFiles /\ parsed = ast /\ features = NoFeatures
    /\ IdleBuild /\ IdleNs
    /\ query \in {<<q>> : q \in Queries}
    /\ answer = <<>>
    /\ IdleRender

\* The field is resolved by each backend against the same file.
ResolveQuery ==
    /\ query # <<>> /\ answer = <<>>
    /\ answer' = <<[go |-> GoGetReferencedStruct(ast, GoBuildIncludes(ast), query[1]),
                    ts |-> TsGetReferencedStruct(ast, query[1]),
                    oa |-> OaGetReferencedStruct(ast, query[1])]>>
    /\ UNCHANGED <<ast, parsed, buildVars, ns, nsLog, query, renderVars>>

NextResolve == ResolveQuery

SpecResolve == InitResolve /\ [][NextResolve]_vars

\* The included files that hold a struct called name at 0-based index i.
HoldAtIndex(i, name) ==
    {k \in 1..Len(ast.Includes) :
        /\ ast.Includes[k].Used
        /\ i < Len(ast.Includes[k].Reference[1].Structs)
        /\ ast.Includes[k].Reference[1].Structs[i + 1].Name = name}

LinkedInclude(f) ==
    {k \in 1..Len(ast.Includes) :
        /\ Len(f.Type.Name) = 2
        /\ ast.Includes[k].Path.Base = f.Type.Name[1] \o ".thrift"
        /\ ast.Includes[k].Used
        /\ ByNameInFile(ast.Includes[k].Reference[1], k, f.Type.Name[2]) # Nil
        /\ Deref(ast, ByNameInFile(ast.Includes[k].Reference[1], k, f.Type.Name[2])).Category
              = f.Type.Category
        /\ f.Type.Reference = Ref(k - 1, f.Type.Name[2])}

\* C8: a field whose type name is qualified as ns.T, ns being an included
\* file that declares struct-like T, is resolved by the Go, the TypeScript and
\* the OpenAPI resolver to the T of that included file.
C8_QualifiedResolvesInInclude ==
    answer # <<>> =>
        \A k \in LinkedInclude(query[1]) :
            LET t == ByNameInFile(ast.Includes[k].Reference[1], k, query[1].Type.Name[2])
            IN  /\ answer[1].go = t
                /\ answer[1].ts = t
                /\ answer[1].oa = t

(***************************************************************************)
(* Name conversions of the Go backend, on the identifiers of the model.    *)
(***************************************************************************)
\* _p: the prefix of synthesized identifiers.
_p(id) == "$" \o id

\* The names of the model that are written with the prefix "$" somewhere.
Prefixable ==
    {"get_args", "get_result", "put_args", "put_result"}
    \cup {sn \o fn : sn \in {"Foo", "FooClient", "FooProcessor"},
                     fn \in {"GetArgs", "GetResult", "PutArgs", "PutResult"}}

\* strings.HasPrefix(name, prefix) and strings.TrimPrefix(name, prefix).
HasDollarPrefix(name) == \E n \in Prefixable : _p(n) = name
TrimDollarPrefix(name) ==
    IF HasDollarPrefix(name) THEN CHOOSE n \in Prefixable : _p(n) = name ELSE name

\* CodeUtils.Identify: the exported Go identifier of an IDL name; the prefix
\* of a synthesized name is dropped.
IdentifyTable ==
    [base |-> "Base", code |-> "Code", msg |-> "Msg", data |-> "Data",
     status |-> "Status", success |-> "Success", req |-> "Req", e |-> "E",
     get |-> "Get", put |-> "Put", err_msg |-> "ErrMsg", get_args |-> "GetArgs",
     get_result |-> "GetResult", put_args |-> "PutArgs", put_result |-> "PutResult"]
Identify(raw) ==
    IF TrimDollarPrefix(raw) \in DOMAIN IdentifyTable
    THEN IdentifyTable[TrimDollarPrefix(raw)]
    ELSE TrimDollarPrefix(raw)

\* common.UpperFirstRune: only the first rune is changed.
UpperFirstTable ==
    [base |-> "Base", code |-> "Code", msg |-> "Msg", data |-> "Data",
     status |-> "Status", success |-> "Success", req |-> "Req", e |-> "E",
     get |-> "Get", put |-> "Put", err_msg |-> "Err_msg"]
UpperFirstRune(name) == IF name \in DOMAIN UpperFirstTable THEN UpperFirstTable[name] ELSE name

\* common.LowerFirstRune.
LowerFirstTable ==
    [Base |-> "base", Code |-> "code", Msg |-> "msg", Data |-> "data",
     Status |-> "status", Success |-> "success", Req |-> "req", E |-> "e"]
LowerFirstRune(name) == IF name \in DOMAIN LowerFirstTable THEN LowerFirstTable[name] ELSE name

\* strings.EqualFold(v, "true").
EqualFoldTrue(v) == v \in {"true", "TRUE", "True"}

\* id2str of buildStructLike: the decimal text of a field ID, a leading minus
\* sign written as an underscore.
Id2Str(id) ==
    IF id = MinInt32 THEN "_2147483648"
    ELSE IF id < 0 THEN "_" \o ToString(-id)
    ELSE ToString(id)

(***************************************************************************)
(* Go backend: annotations.                                                *)
(***************************************************************************)
\* annotationContainsTrue over the values of one annotation key.
GoAnnotationContainsTrue(vals) ==
    IF Len(vals) = 0 THEN FALSE
    ELSE IF Len(vals) > 1 THEN FALSE
    ELSE EqualFoldTrue(vals[1])

GoIsExpandField(f) == GoAnnotationContainsTrue(f.Expand)

\* SupportIsSet: a presence check exists for struct-likes and non-required fields.
SupportIsSet(f) == IsStructLike(f.Type.Category) \/ f.Requiredness # "required"

(***************************************************************************)
(* Go backend: Scope.buildStructLike.                                      *)
(***************************************************************************)
\* The offset of an Expanded Field's ID: the parent field's ID times this.
ExpandOffset == 1000

\* A mutation of AdjustedID: the parent's ID is added without the offset.
AdjustedIDNoOffset(childID, parentID) == AddInt32(childID, parentID)

\* adjustedField.ID = structField.ID + (f.ID * 1000), in int32.
AdjustedID(childID, parentID) == AddInt32(childID, MulInt32(parentID, ExpandOffset))

\* A namespace with the panic flag of a failed MustReserve.
Guarded(ok, n) == [ok |-> ok, ns |-> n]
GAdd(g, name, key) == IF g.ok THEN Guarded(TRUE, NsAdd(g.ns, name, key)) ELSE g
GMustReserve(g, name, key) ==
    IF ~g.ok THEN g
    ELSE IF NsCanReserve(g.ns, name, key) THEN Guarded(TRUE, NsReserve(g.ns, name, key))
    ELSE Guarded(FALSE, g.ns)

\* The built-in methods of a struct-like.
BuiltinFuncs(v, feats) ==
    <<"Read", "Write", "String">>
    \o (IF HasDollarPrefix(v.Name) THEN <<>>
        ELSE (IF v.Category = "union" THEN <<"CountSetFields">> ELSE <<>>)
             \o (IF v.Category = "exception" THEN <<"Error">> ELSE <<>>)
             \o (IF feats.KeepUnknownFields THEN <<"CarryingUnknownFields">> ELSE <<>>)
             \o (IF feats.GenDeepEqual THEN <<"DeepEqual">> ELSE <<>>))

RECURSIVE ReserveFuncs(_, _)
ReserveFuncs(scope, funcs) ==
    IF funcs = <<>> THEN scope
    ELSE ReserveFuncs(NsReserve(scope, Head(funcs), _p(Head(funcs))), Tail(funcs))

\* An Add that the code makes under a condition.
AddIf(cond, scope, name, key) == IF cond THEN NsAdd(scope, name, key) ELSE scope

\* The loop "reserve method names": the accessor names of the declared fields.
RECURSIVE ReserveMethodNames(_, _, _)
ReserveMethodNames(scope, fields, feats) ==
    IF fields = <<>> THEN scope
    ELSE LET f == Head(fields)
             fn == Identify(f.Name)
             id == Id2Str(f.ID)
             s1 == NsAdd(scope, "Get" \o fn, _p("get:" \o f.Name))
             s2 == AddIf(feats.GenerateSetter, s1, "Set" \o fn, _p("set:" \o f.Name))
             s3 == AddIf(SupportIsSet(f), s2, "IsSet" \o fn, _p("isset:" \o f.Name))
             s4 == NsAdd(s3, "ReadField" \o id, _p("read:" \o id))
             s5 == NsAdd(s4, "writeField" \o id, _p("write:" \o id))
             s6 == AddIf(feats.GenDeepEqual, s5, "Field" \o id \o "DeepEqual",
                         _p("deepequal:" \o id))
         IN  ReserveMethodNames(s6, Tail(fields), feats)

\* A mutation of ExpandedField: an Expanded Field of a struct-like type is
\* marked for expansion itself.
ExpandedFieldNested(structField, adjusted, expandedFieldName) ==
    [Field |-> [structField EXCEPT !.ID = adjusted],
     name |-> expandedFieldName,
     reader |-> "ReadField" \o Id2Str(adjusted),
     writer |-> "writeField" \o Id2Str(adjusted),
     getter |-> "Get" \o expandedFieldName,
     setter |-> "Set" \o expandedFieldName,
     isset |-> "IsSet" \o expandedFieldName,
     deepEqual |-> "Field" \o Id2Str(adjusted) \o "DeepEqual",
     isExpandable |-> IsStructLike(structField.Type.Category),
     expandedFields |-> <<>>,
     originalStructField |-> structField]

\* The Expanded Field made of structField, given its adjusted ID and the
\* name the struct's namespace allocated for it; isExpandable and
\* expandedFields keep the zero values of the composite literal.
ExpandedField(structField, adjusted, expandedFieldName) ==
    [Field |-> [structField EXCEPT !.ID = adjusted],
     name |-> expandedFieldName,
     reader |-> "ReadField" \o Id2Str(adjusted),
     writer |-> "writeField" \o Id2Str(adjusted),
     getter |-> "Get" \o expandedFieldName,
     setter |-> "Set" \o expandedFieldName,
     isset |-> "IsSet" \o expandedFieldName,
     deepEqual |-> "Field" \o Id2Str(adjusted) \o "DeepEqual",
     isExpandable |-> FALSE,
     expandedFields |-> <<>>,
     originalStructField |-> structField]

Cons(first, rest) == [scope |-> rest.scope, fields |-> <<first>> \o rest.fields]

\* The Expanded Fields of parent field f, one per field of the referenced struct.
RECURSIVE ExpandInto(_, _, _)
ExpandInto(scope, f, children) ==
    IF children = <<>> THEN [scope |-> scope, fields |-> <<>>]
    ELSE Cons(ExpandedField(Head(children),
                            AdjustedID(Head(children).ID, f.ID),
                            NsAddName(scope, UpperFirstRune(Head(children).Name),
                                      Head(children).Name)),
              ExpandInto(NsAdd(scope, UpperFirstRune(Head(children).Name), Head(children).Name),
                         f, Tail(children)))

\* A mutation of GoShouldExpand: both conditions are required.
GoShouldExpandBoth(f, referenced) ==
    /\ GoIsExpandField(f)
    /\ referenced.Expandable # <<>> /\ referenced.Expandable[1]

\* shouldExpand || structIsExpandable, for a resolved referenced struct.
GoShouldExpand(f, referenced) ==
    \/ GoIsExpandField(f)
    \/ (referenced.Expandable # <<>> /\ referenced.Expandable[1])

\* The referenced struct of a struct-like field, nil for any other field.
GoReferenced(a, incs, f) ==
    IF IsStructLike(f.Type.Category) THEN GoGetReferencedStruct(a, incs, f) ELSE Nil

\* The expansion of field f, whose storage name is already in scope.
GoExpansion(a, scope, f, referencedStruct) ==
    IF referencedStruct # Nil /\ GoShouldExpand(f, Deref(a, referencedStruct))
    THEN [isExpandable |-> TRUE] @@ ExpandInto(scope, f, Deref(a, referencedStruct).Fields)
    ELSE [isExpandable |-> FALSE, scope |-> scope, fields |-> <<>>]

\* The Field of declared field f: its accessor names are read back from the
\* struct's namespace.
DeclaredField(f, fn, scope, expanded) ==
    [Field |-> f,
     name |-> fn,
     reader |-> NsGet(scope, _p("read:" \o Id2Str(f.ID))),
     writer |-> NsGet(scope, _p("write:" \o Id2Str(f.ID))),
     getter |-> NsGet(scope, _p("get:" \o f.Name)),
     setter |-> NsGet(scope, _p("set:" \o f.Name)),
     isset |-> NsGet(scope, _p("isset:" \o f.Name)),
     deepEqual |-> NsGet(scope, _p("deepequal:" \o Id2Str(f.ID))),
     isExpandable |-> expanded.isExpandable,
     expandedFields |-> expanded.fields,
     isResponse |-> FALSE]

\* The loop "field names": the storage name of each declared field and, for
\* a field that expands, its Expanded Fields.
RECURSIVE BuildFields(_, _, _, _)
RECURSIVE BuildFieldsAfter(_, _, _, _, _, _)
BuildFieldsAfter(a, incs, f, fn, expanded, rest) ==
    Cons(DeclaredField(f, fn, expanded.scope, expanded),
         BuildFields(a, incs, expanded.scope, rest))

BuildFields(a, incs, scope, fields) ==
    IF fields = <<>> THEN [scope |-> scope, fields |-> <<>>]
    ELSE BuildFieldsAfter(a, incs, Head(fields),
                          NsAddName(scope, Identify(Head(fields).Name), Head(fields).Name),
                          GoExpansion(a, NsAdd(scope, Identify(Head(fields).Name), Head(fields).Name),
                                      Head(fields), GoReferenced(a, incs, Head(fields))),
                          Tail(fields))

\* What buildStructLike leaves: the file-level namespace, with ok = FALSE
\* when a MustReserve panicked, and the built struct-like.
BuiltStructLike(g, v, sn, fs, synthesized) ==
    [ok |-> g.ok,
     globals |-> g,
     st |-> [StructLike |-> v, name |-> sn, scope |-> fs.scope, fields |-> fs.fields,
             synthesized |-> synthesized]]

BuildStructLikeAs(a, incs, g, v, nn, sn, feats) ==
    BuiltStructLike(GMustReserve(GMustReserve(GAdd(g, Identify(nn), v.Name),
                                              "New" \o sn, _p("new:" \o nn)),
                                 "fieldIDToName_" \o sn, _p("ids:" \o nn)),
                    v, sn,
                    BuildFields(a, incs,
                                ReserveMethodNames(ReserveFuncs(EmptyNs, BuiltinFuncs(v, feats)),
                                                   v.Fields, feats),
                                v.Fields),
                    nn # v.Name)

\* buildStructLike(v, usedName...): usedName is <<>> or the one name given
\* for a synthesized structure.
BuildStructLike(a, incs, g, v, usedName, feats) ==
    BuildStructLikeAs(a, incs, g, v,
                      IF Len(usedName) # 0 THEN usedName[1] ELSE v.Name,
                      NsAddName(g.ns, Identify(IF Len(usedName) # 0 THEN usedName[1] ELSE v.Name),
                                v.Name),
                      feats)

(***************************************************************************)
(* Go backend: Scope.buildService and the declarations that follow it.     *)
(***************************************************************************)
Function(name, oneway, void, ret, args, throws) ==
    [Name |-> name, Oneway |-> oneway, Void |-> void, FunctionType |-> ret,
     Arguments |-> args, Throws |-> throws]

Service(name, functions) == [Name |-> name, Functions |-> functions]

\* buildSynthesized: the argument structure and the result structure of a
\* function; the result structure starts with the success field, ID 0.
SynthArgs(f) == StructLike("struct", f.Name \o "_args", f.Arguments, <<>>)
SynthResult(f) ==
    StructLike("struct", f.Name \o "_result",
               (IF f.Void THEN <<>>
                ELSE <<Field(0, "success", f.FunctionType, "optional", <<>>)>>) \o f.Throws,
               <<>>)

\* buildFunction: the namespace of the parameters of a generated method.
RECURSIVE AddParams(_, _)
AddParams(scope, fields) ==
    IF fields = <<>> THEN scope
    ELSE AddParams(NsAdd(scope, LowerFirstRune(Identify(Head(fields).Name)), Head(fields).Name),
                   Tail(fields))

BuildFunction(f) ==
    AddParams(AddParams(ReserveFuncs(EmptyNs, <<"p", "err", "ctx">>
                                              \o (IF f.Void THEN <<>> ELSE <<"r", "_result">>)),
                        f.Arguments),
              f.Throws)

MarkResponse(st) ==
    [st EXCEPT !.fields = [i \in 1..Len(st.fields) |->
                              IF i = 1 THEN [st.fields[i] EXCEPT !.isResponse = TRUE]
                              ELSE st.fields[i]]]

\* One round of the loop "install names for argument types and response
\* types", given what buildStructLike made of the two synthesized structs.
FunctionTypes(f, arg, res) ==
    [globals |-> IF f.Oneway THEN arg.globals ELSE res.globals,
     sts |-> <<arg.st>>
             \o (IF f.Oneway THEN <<>>
                 ELSE IF f.Void THEN <<res.st>> ELSE <<MarkResponse(res.st)>>),
     fun |-> [Function |-> f, scope |-> BuildFunction(f), argType |-> arg.st,
              resType |-> IF f.Oneway THEN Nil
                          ELSE IF f.Void THEN <<res.st>> ELSE <<MarkResponse(res.st)>>]]

ResultAfter(a, incs, v, f, arg, feats) ==
    FunctionTypes(f, arg,
                  BuildStructLike(a, incs, arg.globals, SynthResult(f),
                                  <<_p(v.Name \o Identify(_p(f.Name \o "_result")))>>, feats))

Prepend(one, rest) ==
    [globals |-> rest.globals, sts |-> one.sts \o rest.sts, funs |-> <<one.fun>> \o rest.funs]

RECURSIVE BuildFunctionTypes(_, _, _, _, _, _)
RECURSIVE BuildFunctionTypesAfter(_, _, _, _, _, _)
BuildFunctionTypesAfter(a, incs, one, v, fns, feats) ==
    Prepend(one, BuildFunctionTypes(a, incs, one.globals, v, fns, feats))

BuildFunctionTypes(a, incs, g, v, fns, feats) ==
    IF fns = <<>> THEN [globals |-> g, sts |-> <<>>, funs |-> <<>>]
    ELSE BuildFunctionTypesAfter(
             a, incs,
             ResultAfter(a, incs, v, Head(fns),
                         BuildStructLike(a, incs, g, SynthArgs(Head(fns)),
                                         <<_p(v.Name \o Identify(_p(Head(fns).Name \o "_args")))>>,
                                         feats),
                         feats),
             v, Tail(fns), feats)

RECURSIVE AddFunctionNames(_, _)
AddFunctionNames(scope, fns) ==
    IF fns = <<>> THEN scope
    ELSE AddFunctionNames(NsAdd(scope, Identify(Head(fns).Name), Head(fns).Name), Tail(fns))

\* What buildService leaves, given the allocated service name and the
\* outcome of the loop over its functions.
BuiltService(v, sn, types) ==
    [globals |-> GMustReserve(GMustReserve(types.globals, sn \o "Client",
                                           _p("client:" \o v.Name)),
                              sn \o "Processor", _p("processor:" \o v.Name)),
     sts |-> types.sts,
     svc |-> [Service |-> v, name |-> sn, scope |-> AddFunctionNames(EmptyNs, v.Functions),
              functions |-> types.funs]]

BuildService(a, incs, g, v, feats) ==
    BuiltService(v, NsAddName(g.ns, Identify(v.Name), v.Name),
                 BuildFunctionTypes(a, incs, GAdd(g, Identify(v.Name), v.Name), v,
                                    v.Functions, feats))

\* buildEnum, buildTypedef and buildConstant allocate the file-level names.
BuildEnum(g, e) == GAdd(g, Identify(e.Name), e.Name)

BuildTypedef(g, t) ==
    IF IsStructLike(t.Type.Category)
    THEN GMustReserve(GAdd(g, Identify(t.Alias), t.Alias),
                      "New" \o NsAddName(g.ns, Identify(t.Alias), t.Alias),
                      _p("new:" \o t.Alias))
    ELSE GAdd(g, Identify(t.Alias), t.Alias)

BuildConstant(g, c) == GAdd(g, Identify(c.Name), c.Name)

\* parser.Thrift.GetStructLikes: structs, then unions, then exceptions.
GetStructLikes(a) == a.Structs \o a.Unions \o a.Exceptions

(***************************************************************************)
(* TypeScript and OpenAPI backends: the Expansion Records.                 *)
(***************************************************************************)
\* annotationContainsTrue of both backends: one value, exactly "true".
FlatAnnotationContainsTrue(vals) ==
    IF Len(vals) = 0 THEN FALSE
    ELSE IF Len(vals) > 1 THEN FALSE
    ELSE vals[1] = "true"

FlatIsExpandField(f) == FlatAnnotationContainsTrue(f.Expand)

IsExpandableStruct(st) == st.Expandable # <<>> /\ st.Expandable[1]

\* The condition under which collectExpandedFields marks field f as expanded;
\* referenced is what the backend's resolver returned for it.
FlatMarks(f, referenced, a) ==
    \/ FlatIsExpandField(f)
    \/ (referenced # Nil /\ IsExpandableStruct(Deref(a, referenced)))

\* collectExpandedFields, with the resolver results of the fields in refs.
RECURSIVE CollectExpandedFields(_, _, _)
CollectExpandedFields(fields, refs, a) ==
    IF fields = <<>> THEN [ExpandedFields |-> <<>>, ExpandedFieldNames |-> {}]
    ELSE LET field == Head(fields)
             referencedStruct == Head(refs)
             rest == CollectExpandedFields(Tail(fields), Tail(refs), a)
         IN  IF FlatMarks(field, referencedStruct, a)
             THEN [ExpandedFields |->
                      (IF referencedStruct # Nil THEN Deref(a, referencedStruct).Fields ELSE <<>>)
                      \o rest.ExpandedFields,
                   ExpandedFieldNames |-> {field.Name} \cup rest.ExpandedFieldNames]
             ELSE rest

TsCollect(st, a) ==
    CollectExpandedFields(st.Fields,
                          [i \in 1..Len(st.Fields) |-> TsGetReferencedStruct(a, st.Fields[i])], a)

OaCollect(st, a) ==
    CollectExpandedFields(st.Fields,
                          [i \in 1..Len(st.Fields) |-> OaGetReferencedStruct(a, st.Fields[i])], a)

\* The ExpandedStructs map over the declarations decls, collected[i] being
\* what collectExpandedFields returned for decls[i]: an entry for every
\* declaration with at least one Expanded Field, the last one of a name.
ExpandedStructsOf(decls, collected) ==
    LET withFields == {i \in 1..Len(decls) : Len(collected[i].ExpandedFields) > 0}
        lastOf(name) == CHOOSE i \in withFields :
                            /\ decls[i].Name = name
                            /\ \A h \in withFields : decls[h].Name = name => h <= i
    IN  [name \in {decls[i].Name : i \in withFields} |->
            [OriginalStruct |-> decls[lastOf(name)]] @@ collected[lastOf(name)]]

\* typescript processExpandedStructs: structs only.
TsProcessExpandedStructs(a) ==
    ExpandedStructsOf(a.Structs, [i \in 1..Len(a.Structs) |-> TsCollect(a.Structs[i], a)])

\* openapi processExpandedStructs: structs, then unions, then exceptions.
OaProcessExpandedStructs(a) ==
    ExpandedStructsOf(a.Structs \o a.Unions \o a.Exceptions,
                      [i \in 1..Len(a.Structs \o a.Unions \o a.Exceptions) |->
                          OaCollect((a.Structs \o a.Unions \o a.Exceptions)[i], a)])

(***************************************************************************)
(* Go backend: resolveTypesAndValues.  A TypeName is kept as its parts:    *)
(* star tells whether the string starts with "*", parts are the dot-       *)
(* separated parts of what follows ("" has no part).                       *)
(***************************************************************************)
TypeName(star, parts) == [star |-> star, parts |-> parts]
NoTypeName == TypeName(FALSE, <<>>)

\* strings.Split(string(typeName), "."): the star stays on the first part.
SplitTypeName(tn) ==
    IF tn.star /\ tn.parts # <<>> THEN <<"*" \o tn.parts[1]>> \o Tail(tn.parts) ELSE tn.parts

\* The names installNames gives the declarations of an included file.
RECURSIVE AddDeclarations(_, _)
AddDeclarations(g, names) ==
    IF names = <<>> THEN g
    ELSE AddDeclarations(NsAdd(g, Identify(Head(names)), Head(names)), Tail(names))

DeclarationNames(a) ==
    [i \in 1..Len(a.Services) |-> a.Services[i].Name]
    \o [i \in 1..Len(GetStructLikes(a)) |-> GetStructLikes(a)[i].Name]
    \o [i \in 1..Len(a.Enums) |-> a.Enums[i].Name]
    \o [i \in 1..Len(a.Typedefs) |-> a.Typedefs[i].Alias]
    \o [i \in 1..Len(a.Constants) |-> a.Constants[i].Name]

\* inc.Scope.globals of an include.
IncludedGlobals(inc) == AddDeclarations(EmptyNs, DeclarationNames(inc.Scope.ast))

Resolved(ok, tn) == [ok |-> ok, typeName |-> tn]

\* Resolver.ResolveTypeName: a primitive maps to itself; a declared type to
\* its allocated identifier, qualified by the package of the include its
\* Reference points at, a struct-like behind a pointer; anything else is an
\* error.
ResolveTypeName(incs, g, t) ==
    IF t.Category = "string" THEN Resolved(TRUE, TypeName(FALSE, <<"string">>))
    ELSE IF t.Category = "i64" THEN Resolved(TRUE, TypeName(FALSE, <<"int64">>))
    ELSE IF t.Category = "bool" THEN Resolved(TRUE, TypeName(FALSE, <<"bool">>))
    ELSE IF t.Reference # NoRef
    THEN IF /\ t.Reference[1].Index + 1 \in 1..Len(incs)
            /\ incs[t.Reference[1].Index + 1] # Nil
            /\ NsGet(IncludedGlobals(incs[t.Reference[1].Index + 1][1]),
                     t.Reference[1].Name) # ""
         THEN Resolved(TRUE,
                       TypeName(IsStructLike(t.Category),
                                <<incs[t.Reference[1].Index + 1][1].PackageName,
                                  NsGet(IncludedGlobals(incs[t.Reference[1].Index + 1][1]),
                                        t.Reference[1].Name)>>))
         ELSE Resolved(FALSE, NoTypeName)
    ELSE IF NsGet(g, JoinDots(t.Name)) # ""
    THEN Resolved(TRUE, TypeName(IsStructLike(t.Category), <<NsGet(g, JoinDots(t.Name))>>))
    ELSE Resolved(FALSE, NoTypeName)

\* Resolver.ResolveFieldTypeName.
ResolveFieldTypeName(incs, g, v) == ResolveTypeName(incs, g, v.Type)

\* Field.IsSetDefault and Resolver.GetFieldInit: the code of the default.
FieldDefault(v) == IF "Default" \in DOMAIN v THEN v.Default ELSE Nil
GetFieldInit(v) == "\"" \o FieldDefault(v)[1] \o "\""

\* What resolveFieldTypes and resolveExpandedFields store in one field;
\* ok is false when ensureType was handed an error.
TypeOf(r, v) ==
    [ok |-> r.ok, typeName |-> r.typeName,
     defaultValue |-> IF FieldDefault(v) # Nil THEN GetFieldInit(v) ELSE ""]

\* resolveExpandedFields, the type of one Expanded Field: a name the
\* resolver left empty falls back to the qualified name of the descriptor.
ExpandedTypeOf(r, v) ==
    TypeOf(IF r.ok /\ r.typeName = NoTypeName /\ v.Type.Name # <<>> /\ ContainsDot(v.Type.Name)
           THEN Resolved(TRUE, TypeName(FALSE, v.Type.Name))
           ELSE r, v)

\* resolveExpandedFields, the packages it marks as used: the includes of
\* the includes whose package name an Expanded Field's type is qualified by.
\* The loop reads inc.Scope of every slot of s.includes; the empty slot of
\* an unused include is the nil dereference of ExpandedPanics.
RefIncludesNamed(incs, nsName) ==
    { refInc \in UNION { {GoBuildIncludes(incs[k][1].Scope.ast)[j] :
                               j \in 1..Len(incs[k][1].Scope.ast.Includes)} :
                            k \in {h \in 1..Len(incs) : incs[h] # Nil} } \ {Nil} :
        refInc[1].PackageName = nsName }

\* A mutation of AppendIncludes: a new include is put in front.
RECURSIVE PrependIncludes(_, _)
PrependIncludes(incs, used) ==
    IF used = {} THEN incs
    ELSE LET inc == CHOOSE u \in used : TRUE
         IN  PrependIncludes(IF \E k \in 1..Len(incs) :
                                   incs[k] # Nil /\ incs[k][1].PackageName = inc[1].PackageName
                                THEN incs ELSE <<inc>> \o incs,
                             used \ {inc})

\* Scope.includeIDL for the includes resolveExpandedFields marks as used:
\* one the import manager does not know yet is appended to s.includes.
RECURSIVE AppendIncludes(_, _)
AppendIncludes(incs, used) ==
    IF used = {} THEN incs
    ELSE LET inc == CHOOSE u \in used : TRUE
         IN  AppendIncludes(IF \E k \in 1..Len(incs) :
                                  incs[k] # Nil /\ incs[k][1].PackageName = inc[1].PackageName
                               THEN incs ELSE Append(incs, inc),
                            used \ {inc})

ExpandedUses(incs, expandedFields) ==
    UNION { IF ContainsDot(expandedFields[i].Field.Type.Name)
            THEN RefIncludesNamed(incs, JoinDots(Front(expandedFields[i].Field.Type.Name)))
            ELSE {} : i \in 1..Len(expandedFields) }

\* resolveExpandedFields, "for _, inc := range s.includes" reading
\* inc.Scope.includes with no nil check on inc: the turn for an Expanded
\* Field of a qualified type panics when an include is unused, unless
\* ensureType has ended the process at this field or one before it.
ExpandedPanics(incs, expandedFields, expanded) ==
    \E i \in 1..Len(expandedFields) :
        /\ ContainsDot(expandedFields[i].Field.Type.Name)
        /\ \E k \in 1..Len(incs) : incs[k] = Nil
        /\ \A h \in 1..i : expanded[h].ok

\* One turn of the loop of resolveFieldTypes: field f resolved.
ResolvedField(incs, g, f) ==
    LET own == TypeOf(ResolveFieldTypeName(incs, g, f.Field), f.Field)
        expanded == [i \in 1..Len(f.expandedFields) |->
                        ExpandedTypeOf(ResolveFieldTypeName(incs, g, f.expandedFields[i].Field),
                                       f.expandedFields[i].Field)]
    IN  [ok |-> /\ own.ok /\ \A i \in 1..Len(expanded) : expanded[i].ok
                /\ ~ExpandedPanics(incs, f.expandedFields, expanded),
         panics |-> own.ok /\ ExpandedPanics(incs, f.expandedFields, expanded),
         typeName |-> own.typeName, defaultValue |-> own.defaultValue,
         expandedFields |-> expanded,
         used |-> ExpandedUses(incs, f.expandedFields)]

\* append(s.StructLikes(), s.synthesized...): structs, unions, exceptions,
\* then the synthesized structures, each group in the order it was built.
OfCategory(sts, cat) ==
    SelectSeq(sts, LAMBDA st : ~st.synthesized /\ st.StructLike.Category = cat)

ResolveOrder(sts) ==
    OfCategory(sts, "struct") \o OfCategory(sts, "union") \o OfCategory(sts, "exception")
    \o SelectSeq(sts, LAMBDA st : st.synthesized)

\* The fields the producer sends, in the order it sends them.
FieldsToResolve(sts) ==
    Flatten([i \in 1..Len(ResolveOrder(sts)) |-> ResolveOrder(sts)[i].fields])

\* resolveTypedefsAndConstants: a typedef keeps the type without the
\* pointer (Deref), a constant keeps it as resolved.
ResolvedTypedef(incs, g, t) ==
    [ok |-> ResolveTypeName(incs, g, t.Type).ok,
     typeName |-> [ResolveTypeName(incs, g, t.Type).typeName EXCEPT !.star = FALSE]]

ResolvedConstant(incs, g, c) == ResolveTypeName(incs, g, c.Type)

\* A mutation of UsedQualifier: the pointer star is taken off first.
UsedQualifierDeref(tn) ==
    IF Len(tn.parts) >= 2 THEN {JoinDots(Front(tn.parts))} ELSE {}

\* collectActuallyUsedPackages, one type name: everything before the last
\* dot of the string counts as a package name.
UsedQualifier(tn) ==
    IF tn # NoTypeName /\ Len(SplitTypeName(tn)) >= 2
    THEN {JoinDots(Front(SplitTypeName(tn)))}
    ELSE {}

\* collectActuallyUsedPackages over the resolved types.
CollectActuallyUsedPackages(fieldTypes, typedefTypes, constantTypes) ==
    UNION { UsedQualifier(fieldTypes[i].typeName)
            \cup UNION { UsedQualifier(fieldTypes[i].expandedFields[j].typeName) :
                           j \in 1..Len(fieldTypes[i].expandedFields) } :
            i \in 1..Len(fieldTypes) }
    \cup UNION { UsedQualifier(typedefTypes[i].typeName) : i \in 1..Len(typedefTypes) }
    \cup UNION { UsedQualifier(constantTypes[i].typeName) : i \in 1..Len(constantTypes) }

\* Scope.includeIDL for a file that is already included: its package name.
IncludeIDL(inc) == inc.PackageName

\* checkUnusedPackagesAfterExpansion: imports.libNotUsed afterwards.
CheckUnusedPackagesAfterExpansion(incs, notUsed, actualUsedPackages) ==
    notUsed \cup
    { IncludeIDL(incs[k][1]) :
        k \in { h \in 1..Len(incs) :
                  /\ incs[h] # Nil
                  /\ IncludeIDL(incs[h][1]) \notin notUsed
                  /\ incs[h][1].PackageName \notin actualUsedPackages } }

\* resolveFunctionArguments and resolveFunctionResponse, a qualified type:
\* the package of the first include whose globals know the bare name.
CorrectNamespace(incs, typeName) ==
    LET hits == { k \in 1..Len(incs) :
                    incs[k] # Nil /\ NsGet(IncludedGlobals(incs[k][1]), typeName) # "" }
    IN  IF hits = {} THEN "" ELSE incs[Least(hits)][1].PackageName

FullTypeName(correctNamespace, typeName) ==
    TypeName(TRUE, IF correctNamespace = "" THEN <<typeName>>
                   ELSE <<correctNamespace, typeName>>)

\* resolveFunctionArguments, the type of one argument.
ArgumentType(incs, g, v) ==
    IF ContainsDot(v.Type.Name)
    THEN Resolved(TRUE, FullTypeName(CorrectNamespace(incs, Last(v.Type.Name)),
                                     Last(v.Type.Name)))
    ELSE ResolveTypeName(incs, g, v.Type)

\* resolveFunctionResponse, the response type from the first field of the
\* result structure.
ResponseType(incs, g, f) ==
    IF f.isExpandable /\ "originalStructField" \in DOMAIN f
    THEN ResolveTypeName(incs, g, f.originalStructField.Type)
    ELSE IF f.Field.Name = "success" /\ ContainsDot(f.Field.Type.Name)
    THEN Resolved(TRUE, FullTypeName(CorrectNamespace(incs, Last(f.Field.Type.Name)),
                                     Last(f.Field.Type.Name)))
    ELSE ResolveTypeName(incs, g, f.Field.Type)

\* resolveFunctionTypes, one function.
ResolvedFunction(incs, g, fun) ==
    [arguments |-> [i \in 1..Len(fun.argType.fields) |->
                       ArgumentType(incs, g, fun.argType.fields[i].Field)],
     response |-> IF fun.Function.Oneway \/ fun.Function.Void THEN <<>>
                  ELSE <<ResponseType(incs, g, fun.resType[1].fields[1])>>]

ResolvedFunctions(incs, g, svcs) ==
    [i \in 1..Len(svcs) |->
        [j \in 1..Len(svcs[i].functions) |-> ResolvedFunction(incs, g, svcs[i].functions[j])]]

FunctionsOk(funs) ==
    \A i \in 1..Len(funs) : \A j \in 1..Len(funs[i]) :
        /\ \A k \in 1..Len(funs[i][j].arguments) : funs[i][j].arguments[k].ok
        /\ \A k \in 1..Len(funs[i][j].response) : funs[i][j].response[k].ok

(***************************************************************************)
(* The build of one file: Scope.init of the Go backend step by step, then  *)
(* BuildScope of the TypeScript backend and BuildScope of the OpenAPI      *)
(* backend over the same AST.                                              *)
(***************************************************************************)
\* A mutation of Recovered: the deferred recover is missing.
NotRecovered(panicked) == [err |-> "", escaped |-> panicked]

\* The deferred function of Scope.init: a panic becomes the returned error.
Recovered(panicked) ==
    [err |-> IF panicked THEN "err = name conflict, stack = ..." ELSE "", escaped |-> FALSE]

\* A mutation of Phases: the enums are named before the struct-likes.
PhasesEnumsFirst == <<"services", "enums", "structs", "typedefs", "constants">>

\* The loops of installNames, in the order they run.
Phases == <<"services", "structs", "enums", "typedefs", "constants">>

PhaseItems(a, phase) ==
    CASE phase = "services" -> a.Services
      [] phase = "structs" -> GetStructLikes(a)
      [] phase = "enums" -> a.Enums
      [] phase = "typedefs" -> a.Typedefs
      [] phase = "constants" -> a.Constants

\* The loops of installNames: the phase and index after item i of phase k.
RECURSIVE FirstPhaseFrom(_, _)
FirstPhaseFrom(a, k) ==
    IF k > Len(Phases) THEN [pc |-> "installed", idx |-> 0]
    ELSE IF Len(PhaseItems(a, Phases[k])) > 0 THEN [pc |-> Phases[k], idx |-> 1]
    ELSE FirstPhaseFrom(a, k + 1)

PhaseIndex(phase) == CHOOSE k \in 1..Len(Phases) : Phases[k] = phase

After(a, phase, i) ==
    IF i < Len(PhaseItems(a, phase)) THEN [pc |-> phase, idx |-> i + 1]
    ELSE FirstPhaseFrom(a, PhaseIndex(phase) + 1)

\* What a step of installNames leaves behind: the next position, or the
\* outcome of the deferred function when the step panicked.
Step(g, phase) ==
    LET out == Recovered(~g.ok)
        nxt == After(ast, phase, idx)
    IN  /\ globals' = g.ns
        /\ buildErr' = out.err
        /\ escaped' = out.escaped
        /\ pc' = IF g.ok THEN nxt.pc ELSE "failed"
        /\ idx' = IF g.ok THEN nxt.idx ELSE 0

\* reorderFields(x), the reordering-for-packing feature: the fields of one
\* struct-like arranged by decreasing size in memory, fields of one size in
\* their declared order. Its caller uses the returned sizes for a log line
\* only, so the arrangement is written to x.Fields.
FieldSize(f) ==
    CASE f.Type.Category = "bool" -> 1
      [] f.Type.Category = "string" -> 16
      [] OTHER -> 8

RECURSIVE InsertBySize(_, _)
InsertBySize(f, fs) ==
    IF fs = <<>> THEN <<f>>
    ELSE IF FieldSize(fs[1]) >= FieldSize(f)
         THEN <<fs[1]>> \o InsertBySize(f, Tail(fs))
         ELSE <<f>> \o fs

RECURSIVE ArrangedFields(_)
ArrangedFields(fs) ==
    IF fs = <<>> THEN <<>>
    ELSE InsertBySize(fs[Len(fs)], ArrangedFields(SubSeq(fs, 1, Len(fs) - 1)))

reorderFields(x) == [x EXCEPT !.Fields = ArrangedFields(x.Fields)]

\* The loop of Scope.init over s.ast.GetStructLikes() under the feature.
ReorderedFile(a) ==
    [a EXCEPT !.Structs = [i \in 1..Len(a.Structs) |-> reorderFields(a.Structs[i])],
              !.Unions = [i \in 1..Len(a.Unions) |-> reorderFields(a.Unions[i])],
              !.Exceptions = [i \in 1..Len(a.Exceptions) |-> reorderFields(a.Exceptions[i])]]

GoInitBegin ==
    /\ pc = "start"
    /\ ast' = IF features.ReorderFields THEN ReorderedFile(ast) ELSE ast
    /\ includes' = GoBuildIncludes(ast)
    /\ pc' = FirstPhaseFrom(ast, 1).pc
    /\ idx' = FirstPhaseFrom(ast, 1).idx
    /\ UNCHANGED <<parsed, features, globals, built, services, buildErr, escaped,
                   tsScope, oaScope, ns, nsLog, query, answer, renderVars, resolveVars>>

\* The scope after a step that built something: r.globals is not ok when
\* the step panicked, and then the scope is given up.
Keep(r, phase) ==
    /\ Step(r.globals, phase)
    /\ services' = IF r.globals.ok /\ phase = "services" THEN Append(services, r.svc)
                   ELSE services
    /\ built' = IF r.globals.ok THEN built \o r.sts ELSE built

One(r) == [globals |-> r.globals, sts |-> <<r.st>>, svc |-> <<>>]

GoBuildService ==
    /\ pc = "services"
    /\ Keep(BuildService(ast, includes, Guarded(TRUE, globals), ast.Services[idx], features),
            "services")
    /\ UNCHANGED <<ast, parsed, features, includes, tsScope, oaScope, ns, nsLog, query, answer, renderVars, resolveVars>>

GoBuildStructLike ==
    /\ pc = "structs"
    /\ Keep(One(BuildStructLike(ast, includes, Guarded(TRUE, globals),
                                GetStructLikes(ast)[idx], <<>>, features)),
            "structs")
    /\ UNCHANGED <<ast, parsed, features, includes, services, tsScope, oaScope, ns, nsLog, query, answer, renderVars, resolveVars>>

GoBuildEnum ==
    /\ pc = "enums"
    /\ Step(BuildEnum(Guarded(TRUE, globals), ast.Enums[idx]), "enums")
    /\ UNCHANGED <<ast, parsed, features, includes, built, services, tsScope, oaScope,
                   ns, nsLog, query, answer, renderVars, resolveVars>>

GoBuildTypedef ==
    /\ pc = "typedefs"
    /\ Step(BuildTypedef(Guarded(TRUE, globals), ast.Typedefs[idx]), "typedefs")
    /\ UNCHANGED <<ast, parsed, features, includes, built, services, tsScope, oaScope,
                   ns, nsLog, query, answer, renderVars, resolveVars>>

GoBuildConstant ==
    /\ pc = "constants"
    /\ Step(BuildConstant(Guarded(TRUE, globals), ast.Constants[idx]), "constants")
    /\ UNCHANGED <<ast, parsed, features, includes, built, services, tsScope, oaScope,
                   ns, nsLog, query, answer, renderVars, resolveVars>>

\* The producer goroutine of resolveTypesAndValues: ff <- f meets the
\* receive of "for f := range ff", the channel having no buffer.
ProducerSends ==
    /\ pc = "installed" /\ resolving = 0 /\ ~ff.closed
    /\ ff.sent < Len(FieldsToResolve(built))
    /\ ff' = [ff EXCEPT !.sent = @ + 1]
    /\ resolving' = ff.sent + 1
    /\ UNCHANGED <<ast, parsed, features, pc, idx, includes, globals, built, services, buildErr,
                   escaped, tsScope, oaScope, ns, nsLog, query, answer, renderVars,
                   resolved, libNotUsed, firstBuild>>

\* A mutation of ProducerCloses: close(ff) at any point of the loops.
ProducerClosesAnyTime ==
    /\ pc = "installed" /\ ~ff.closed
    /\ ff' = [ff EXCEPT !.closed = TRUE]
    /\ UNCHANGED <<ast, parsed, features, pc, idx, includes, globals, built, services, buildErr,
                   escaped, tsScope, oaScope, ns, nsLog, query, answer, renderVars,
                   resolving, resolved, libNotUsed, firstBuild>>

\* The producer goroutine: close(ff) after the last send.
ProducerCloses ==
    /\ pc = "installed" /\ ~ff.closed
    /\ ff.sent = Len(FieldsToResolve(built))
    /\ ff' = [ff EXCEPT !.closed = TRUE]
    /\ UNCHANGED <<ast, parsed, features, pc, idx, includes, globals, built, services, buildErr,
                   escaped, tsScope, oaScope, ns, nsLog, query, answer, renderVars,
                   resolving, resolved, libNotUsed, firstBuild>>

\* A mutation of Stored: ensureType lets an error pass.
StoredAnyway(r) ==
    /\ resolved' = [resolved EXCEPT !.fields = Append(@, r)]
    /\ includes' = includes
    /\ pc' = pc
    /\ buildErr' = buildErr

\* What the body of the loop of resolveFieldTypes leaves behind: the types
\* of the field, or the exit of the process when ensureType got an error,
\* or the panic that the deferred recover of Scope.init returns as an error.
Stored(r) ==
    /\ resolved' = IF r.ok THEN [resolved EXCEPT !.fields = Append(@, r)] ELSE resolved
    /\ includes' = IF r.ok THEN AppendIncludes(includes, r.used) ELSE includes
    /\ pc' = IF r.ok THEN pc ELSE IF r.panics THEN "failed" ELSE "exited"
    /\ buildErr' = IF r.panics THEN "err = runtime error: invalid memory address or nil pointer dereference"
                   ELSE buildErr

\* resolveFieldTypes, the body of the loop for the field received.
ConsumerResolves ==
    /\ pc = "installed" /\ resolving # 0
    /\ \E r \in {ResolvedField(includes, globals, FieldsToResolve(built)[resolving])} :
          Stored(r)
    /\ resolving' = 0
    /\ UNCHANGED <<ast, parsed, features, idx, globals, built, services,
                   escaped, tsScope, oaScope, ns, nsLog, query, answer, renderVars,
                   ff, libNotUsed, firstBuild>>

\* A mutation of RangeEnds: the loop ends as soon as no field is waiting.
RangeEndsWhenIdle(ch) == TRUE

\* "for f := range ff" ends when ff is closed.
RangeEnds(ch) == ch.closed

TypedefsAndConstants(typedefTypes, constantTypes) ==
    /\ resolved' = [resolved EXCEPT !.typedefs = typedefTypes, !.constants = constantTypes]
    /\ pc' = IF /\ \A i \in 1..Len(typedefTypes) : typedefTypes[i].ok
                /\ \A i \in 1..Len(constantTypes) : constantTypes[i].ok
             THEN "fieldsResolved" ELSE "exited"

\* resolveFieldTypes returns, then resolveTypedefsAndConstants.
GoResolveTypedefsAndConstants ==
    /\ pc = "installed" /\ resolving = 0 /\ RangeEnds(ff)
    /\ TypedefsAndConstants(
           [i \in 1..Len(ast.Typedefs) |-> ResolvedTypedef(includes, globals, ast.Typedefs[i])],
           [i \in 1..Len(ast.Constants) |->
               ResolvedConstant(includes, globals, ast.Constants[i])])
    /\ UNCHANGED <<ast, parsed, features, idx, includes, globals, built, services, buildErr,
                   escaped, tsScope, oaScope, ns, nsLog, query, answer, renderVars,
                   ff, resolving, libNotUsed, firstBuild>>

\* A mutation of GoCheckUnusedPackages: the pruning does not wait for the
\* typedefs and constants.
GoCheckUnusedPackagesEarly ==
    /\ pc = "installed" /\ resolving = 0 /\ RangeEnds(ff)
    /\ libNotUsed' = CheckUnusedPackagesAfterExpansion(
                         includes, libNotUsed,
                         CollectActuallyUsedPackages(resolved.fields, resolved.typedefs,
                                                     resolved.constants))
    /\ pc' = "pruned"
    /\ UNCHANGED <<ast, parsed, features, idx, includes, globals, built, services, buildErr,
                   escaped, tsScope, oaScope, ns, nsLog, query, answer, renderVars,
                   ff, resolving, resolved, firstBuild>>

\* checkUnusedPackagesAfterExpansion.
GoCheckUnusedPackages ==
    /\ pc = "fieldsResolved"
    /\ libNotUsed' = CheckUnusedPackagesAfterExpansion(
                         includes, libNotUsed,
                         CollectActuallyUsedPackages(resolved.fields, resolved.typedefs,
                                                     resolved.constants))
    /\ pc' = "pruned"
    /\ UNCHANGED <<ast, parsed, features, idx, includes, globals, built, services, buildErr,
                   escaped, tsScope, oaScope, ns, nsLog, query, answer, renderVars,
                   ff, resolving, resolved, firstBuild>>

FunctionTypesStored(funs) ==
    /\ resolved' = [resolved EXCEPT !.functions = funs]
    /\ pc' = IF FunctionsOk(funs) THEN "resolved" ELSE "exited"

\* resolveServiceBases (no service of the files extends another) and
\* resolveFunctionTypes.
GoResolveFunctionTypes ==
    /\ pc = "pruned"
    /\ FunctionTypesStored(ResolvedFunctions(includes, globals, services))
    /\ UNCHANGED <<ast, parsed, features, idx, includes, globals, built, services, buildErr,
                   escaped, tsScope, oaScope, ns, nsLog, query, answer, renderVars,
                   ff, resolving, libNotUsed, firstBuild>>

\* resolveTypesAndValues returned: init returns nil.
GoInitReturn ==
    /\ pc = "resolved"
    /\ pc' = "done"
    /\ UNCHANGED <<ast, parsed, features, idx, includes, globals, built, services, buildErr, escaped,
                   tsScope, oaScope, ns, nsLog, query, answer, renderVars, resolveVars>>

\* typescript BuildScope.
TsBuildScope ==
    /\ pc \in {"done", "failed", "exited"} /\ tsScope = <<>>
    /\ tsScope' = <<[Filename |-> ast.Filename,
                     ExpandedStructs |-> TsProcessExpandedStructs(ast)]>>
    /\ UNCHANGED <<ast, parsed, features, pc, idx, includes, globals, built, services, buildErr,
                   escaped, oaScope, ns, nsLog, query, answer, renderVars, resolveVars>>

\* openapi BuildScope.
OaBuildScope ==
    /\ pc \in {"done", "failed", "exited"} /\ tsScope # <<>> /\ oaScope = <<>>
    /\ oaScope' = <<[Filename |-> ast.Filename,
                     ExpandedStructs |-> OaProcessExpandedStructs(ast)]>>
    /\ UNCHANGED <<ast, parsed, features, pc, idx, includes, globals, built, services, buildErr,
                   escaped, tsScope, ns, nsLog, query, answer, renderVars, resolveVars>>

\* What a build leaves behind: the allocated names (the global namespace
\* and the scopes of the struct-likes and services), the Expansion Records
\* of the three backends and the resolved types.
BuildOutcome ==
    [pc |-> pc, buildErr |-> buildErr, includes |-> includes, globals |-> globals,
     built |-> built, services |-> services, resolved |-> resolved,
     libNotUsed |-> libNotUsed, tsScope |-> tsScope, oaScope |-> oaScope]

\* newScope: an uninitialized scope with a namespace of its own.
NewScope(a) == [ast |-> a, globals |-> EmptyNs]

\* BuildScope called once more on the same AST with the same features,
\* after the first build has returned.
BuildAgain ==
    /\ pc \in {"done", "failed"} /\ tsScope # <<>> /\ oaScope # <<>>
    /\ firstBuild = <<>>
    /\ firstBuild' = <<BuildOutcome>>
    /\ globals' = NewScope(ast).globals
    /\ pc' = "start" /\ idx' = 0 /\ includes' = <<>>
    /\ built' = <<>> /\ services' = <<>> /\ buildErr' = "" /\ escaped' = FALSE
    /\ tsScope' = <<>> /\ oaScope' = <<>>
    /\ ff' = NoChan /\ resolving' = 0 /\ resolved' = NoTypes /\ libNotUsed' = {}
    /\ UNCHANGED <<ast, parsed, features, ns, nsLog, query, answer, renderVars>>

Next ==
    \/ GoInitBegin
    \/ GoBuildService
    \/ GoBuildStructLike
    \/ GoBuildEnum
    \/ GoBuildTypedef
    \/ GoBuildConstant
    \/ ProducerSends
    \/ ProducerCloses
    \/ ConsumerResolves
    \/ GoResolveTypedefsAndConstants
    \/ GoCheckUnusedPackages
    \/ GoResolveFunctionTypes
    \/ GoInitReturn
    \/ TsBuildScope
    \/ OaBuildScope
    \/ BuildAgain

(***************************************************************************)
(* The files the build is run on.                                          *)
(***************************************************************************)
ChildNames == <<"code", "msg", "data">>

\* The fields of the referenced struct: n fields, IDs from c1 upwards.
Children(c1, n) ==
    [i \in 1..n |-> Field(c1 + i - 1, ChildNames[i], StringType, "default", <<>>)]

DeclBase(children, exp) == StructLike("struct", "Base", children, exp)
DeclErr == StructLike("exception", "Err", <<Field(1, "err_msg", StringType, "default", <<>>)>>, <<>>)

LocalBase == Type("struct", <<"Base">>, NoRef)
RemoteBase == Type("struct", <<"base", "Base">>, Ref(0, "Base"))
Missing == Type("struct", <<"Missing">>, NoRef)
ErrType == Type("exception", <<"Err">>, NoRef)

ExpandValues == {<<>>, <<"true">>, <<"TRUE">>, <<"false">>, <<"true", "true">>}
ExpandableFlags == {<<>>, <<TRUE>>, <<FALSE>>}

\* main.thrift: it includes base.thrift, and both files declare Base.
MainFile(base, structs, exceptions, svcs) ==
    File("main.thrift",
         <<Include("", "base", TRUE, "base", File("base.thrift", <<>>, <<base>>, <<>>, <<>>, <<>>))>>,
         <<base>> \o structs, <<>>, exceptions, svcs)

UserResp(fields) == StructLike("struct", "UserResp", fields, <<>>)

\* Who expands: the kind of reference, the field's annotation, the flag of
\* the referenced struct, the number of its fields, and a second field.
DecisionFiles ==
    { MainFile(DeclBase(Children(1, n), exp),
               <<UserResp(<<Field(1, "base", t, "default", anno)>> \o second)>>, <<>>, <<>>) :
        t \in {LocalBase, RemoteBase, Missing}, anno \in ExpandValues,
        exp \in ExpandableFlags, n \in 0..MaxFields,
        second \in { <<>>,
                     <<Field(2, "req", LocalBase, "optional", <<"true">>)>>,
                     <<Field(2, "req", RemoteBase, "optional", <<"true">>)>> } }

ParentIDs == {0, 1, 2, -1, 1000, 2147483, 2147484, -2147484}
ChildIDs == {1, 2, 647, 648, 1001, -648, -649}
SiblingIDs == {2, 1001}

\* Which IDs the Expanded Fields get.
IDFiles ==
    { MainFile(DeclBase(Children(c, 1), <<>>),
               <<UserResp(<<Field(p, "base", LocalBase, "default", <<"true">>),
                            Field(sib, "status", StringType, "default", <<>>)>>)>>, <<>>, <<>>) :
        p \in ParentIDs, c \in ChildIDs, sib \in SiblingIDs }

\* Which names the accessors get: the parent declares a field of its own
\* next to the expanding one, before it or after it.
NameFiles ==
    { MainFile(DeclBase(Children(1, MaxFields), <<TRUE>>),
               <<UserResp(IF first
                          THEN <<Field(5, own, StringType, req, <<>>),
                                 Field(1, "base", LocalBase, "default", <<>>)>>
                          ELSE <<Field(1, "base", LocalBase, "default", <<>>),
                                 Field(5, own, StringType, req, <<>>)>>)>>, <<>>, <<>>) :
        own \in {"code", "status", "Code"}, req \in {"required", "optional"},
        first \in BOOLEAN }

\* Services: the synthesized argument and result structures, and the client
\* and processor names.
ServiceFiles ==
    { MainFile(DeclBase(Children(1, 1), exp), <<>>, <<DeclErr>>,
               [i \in 1..Len(names) |->
                   Service(names[i],
                           <<Function(fnames[i], oneway, void, LocalBase,
                                      <<Field(1, "req", LocalBase, "default", anno)>>,
                                      <<Field(1, "e", ErrType, "default", <<>>)>>)>>)]) :
        names \in {<<"Foo">>, <<"FooClient", "Foo">>, <<"Foo", "FooClient">>,
                   <<"FooProcessor", "Foo">>},
        fnames \in {<<"get", "put">>, <<"put", "get">>}, oneway \in BOOLEAN, void \in BOOLEAN,
        exp \in {<<>>, <<TRUE>>}, anno \in {<<>>, <<"true">>} }

\* Enums, typedefs and constants next to the struct-likes.
OtherDeclFiles ==
    { [MainFile(DeclBase(Children(1, 1), <<>>),
                <<StructLike("struct", sname, <<>>, <<>>)>>, <<>>, <<>>)
         EXCEPT !.Enums = <<[Name |-> ename]>>,
                !.Typedefs = <<[Alias |-> alias, Type |-> ty]>>,
                !.Constants = <<[Name |-> cname, Type |-> StringType]>>] :
        sname \in {"Data", "NewData", "NewBase"}, ename \in {"Status", "Data"},
        alias \in {"Data", "Code"}, ty \in {LocalBase, StringType},
        cname \in {"Code", "Limit"} }

\* Functions whose argument and return types live in included files: two
\* includes, both declaring a struct T; the first may be unused.
DeclData == StructLike("struct", "data", <<Field(1, "msg", StringType, "default", <<>>)>>, <<>>)

\* A union and an exception with a field of the expandable struct Base.
UnionFiles ==
    { [MainFile(DeclBase(Children(1, 1), <<TRUE>>), <<>>, excs, <<>>) EXCEPT !.Unions = uns] :
        excs \in {<<>>, <<StructLike("exception", "Fault",
                                      <<Field(1, "base", LocalBase, "default", <<>>)>>, <<>>)>>},
        uns \in {<<>>, <<StructLike("union", "Either",
                                    <<Field(1, "base", LocalBase, "default", <<>>)>>, <<>>)>>} }

\* A struct whose fields are declared smallest first, next to the expandable
\* struct Base.
DeclPacked(n) ==
    StructLike("struct", "Packed",
               SubSeq(<<Field(1, "flag", Type("bool", <<"bool">>, NoRef), "default", <<>>),
                        Field(2, "count", Type("i64", <<"i64">>, NoRef), "default", <<>>),
                        Field(3, "base", LocalBase, "default", <<>>)>>, 1, n),
               <<>>)

PackedFiles ==
    { MainFile(DeclBase(Children(1, 1), exp), <<DeclPacked(n)>>, <<>>, <<>>) :
        exp \in {<<>>, <<TRUE>>}, n \in 2..3 }

\* Two levels: UserResp has a field of Base to expand, and the first field
\* of Base is of struct Inner and is annotated, or Inner is expandable.
DeclInner(exp) ==
    StructLike("struct", "Inner", <<Field(1, "code", StringType, "default", <<>>)>>, exp)

TwoLevelFiles ==
    { MainFile(DeclBase(<<Field(1, "inner", Type("struct", <<"Inner">>, NoRef), "default", anno),
                          Field(2, "msg", StringType, "default", <<>>)>>, <<TRUE>>),
               <<DeclInner(exp), UserResp(<<Field(1, "base", LocalBase, "default", <<"true">>)>>)>>,
               <<>>, <<>>) :
        anno \in {<<>>, <<"true">>}, exp \in {<<>>, <<TRUE>>} }

\* Every kind of declaration in one file, with raw names of different kinds
\* that get the same identifier: service base and struct Base, struct data
\* and enum Data, enum status and typedef Status, typedef Code and constant
\* code.
AllDeclFiles ==
    { [MainFile(DeclBase(Children(1, 1), <<>>), <<DeclData>>, <<DeclErr>>,
                <<Service("Foo", <<Function("get", oneway, FALSE, LocalBase,
                                            <<Field(1, "req", LocalBase, "default", <<>>)>>,
                                            <<>>)>>),
                  Service(second, <<Function("put", FALSE, TRUE, LocalBase, <<>>, <<>>)>>)>>)
         EXCEPT !.Enums = <<[Name |-> "Data"], [Name |-> "status"]>>,
                !.Typedefs = <<[Alias |-> alias, Type |-> StringType]>>,
                !.Constants = <<[Name |-> cname, Type |-> StringType]>>] :
        oneway \in BOOLEAN, second \in {"Bar", "base"},
        alias \in {"Status", "Code"}, cname \in {"code", "Limit"} }

QualifiedTypes ==
    { Type("struct", <<"base", "T">>, Ref(0, "T")),
      Type("struct", <<"other", "T">>, Ref(1, "T")),
      Type("struct", <<"other", "data">>, Ref(1, "data")),
      Type("enum", <<"base", "Status">>, Ref(0, "Status")) }

QualifiedFiles ==
    { File("main.thrift",
           << Include("", "base", ub, "base",
                      [File("base.thrift", <<>>, <<DeclT>>, <<>>, <<>>, <<>>)
                          EXCEPT !.Enums = <<[Name |-> "Status"]>>]),
              Include("", "other", TRUE, "other",
                      File("other.thrift", <<>>, <<DeclT, DeclData>>, <<>>, <<>>, <<>>)) >>,
           <<>>, <<>>, <<>>,
           <<Service("Foo", <<Function("get", FALSE, FALSE, ret,
                                       <<Field(1, "req", arg, "default", <<>>)>>, <<>>)>>)>>) :
        ub \in BOOLEAN, ret \in QualifiedTypes \cup {StringType}, arg \in QualifiedTypes }

\* An Expanded Field of a qualified type: base.thrift includes other.thrift
\* and its Base has a field of type other.T; main.thrift expands base.Base
\* and has a second include, spare.thrift, that may be unused.
NestedFiles ==
    { File("main.thrift",
           << Include("", "base", TRUE, "base",
                      File("base.thrift",
                           <<Include("", "other", TRUE, "other",
                                     File("other.thrift", <<>>, <<DeclT>>, <<>>, <<>>, <<>>))>>,
                           <<DeclBase(<<Field(1, "inner", Type("struct", <<"other", "T">>,
                                                               Ref(0, "T")),
                                              "default", <<>>)>>, <<TRUE>>)>> \o own,
                           <<>>, <<>>, <<>>)),
              Include("", "spare", us, "spare",
                      File("spare.thrift", <<>>, <<DeclData>>, <<>>, <<>>, <<>>)) >>,
           <<UserResp(<<Field(1, "base", RemoteBase, "default", <<>>)>>)>>,
           <<>>, <<>>, <<>>) :
        us \in BOOLEAN, own \in {<<>>, <<DeclT>>} }

\* Default values: on a declared field and on a field of the expanded struct.
DefaultFiles ==
    { MainFile(DeclBase(<<Field(1, "code", StringType, "default", <<>>) @@ child>>, <<TRUE>>),
               <<UserResp(<<Field(1, "base", t, "default", <<>>),
                            Field(2, "status", StringType, "default", <<>>) @@ own>>)>>,
               <<>>, <<>>) :
        t \in {LocalBase, RemoteBase},
        child \in {<<>>, [Default |-> <<"ok">>]}, own \in {<<>>, [Default |-> <<"on">>]} }

FeatureSets ==
    { NoFeatures, [NoFeatures EXCEPT !.GenerateSetter = TRUE],
      [NoFeatures EXCEPT !.GenerateSetter = TRUE, !.GenDeepEqual = TRUE] }

Init ==
    /\ \/ ast \in DecisionFiles \cup IDFiles \cup ServiceFiles \cup OtherDeclFiles
                   \cup QualifiedFiles \cup DefaultFiles \cup NestedFiles
                   \cup AllDeclFiles \cup UnionFiles \cup TwoLevelFiles
          /\ features = NoFeatures
       \/ ast \in NameFiles /\ features \in FeatureSets
       \/ /\ ast \in PackedFiles
          /\ features \in {NoFeatures, [NoFeatures EXCEPT !.ReorderFields = TRUE]}
    /\ parsed = ast
    /\ pc = "start" /\ idx = 0 /\ includes = <<>> /\ globals = EmptyNs
    /\ built = <<>> /\ services = <<>> /\ buildErr = "" /\ escaped = FALSE
    /\ tsScope = <<>> /\ oaScope = <<>>
    /\ Unresolved
    /\ IdleNs /\ IdleResolve /\ IdleRender

Spec == Init /\ [][Next]_vars

\* The body of the loop of resolveFieldTypes runs to its end: the step of
\* ConsumerResolves as the variable resolving shows it (no other step of
\* Next takes resolving to 0 while the loop runs).
ConsumerFinishesBody == pc = "installed" /\ resolving # 0 /\ resolving' = 0

\* The Go scheduler runs a goroutine that can take a step: the producer's
\* send and close, the consumer's loop body and the return of the loop.
SpecLive ==
    /\ Init /\ [][Next]_vars
    /\ WF_vars(ProducerSends) /\ WF_vars(ProducerCloses)
    /\ WF_resolving(ConsumerFinishesBody) /\ WF_vars(GoResolveTypedefsAndConstants)

(***************************************************************************)
(* Properties of the Go build.                                             *)
(***************************************************************************)
\* The declared fields of the built struct-likes that expanded: st is the
\* position in built, p the position of the field.
ExpandedAt == {<<st, p>> \in (1..Len(built)) \X (1..(MaxFields + 2)) :
                  p <= Len(built[st].fields) /\ built[st].fields[p].isExpandable}

\* c + p * 1000 as the pair <<thousands, rest>>, with no 32-bit arithmetic.
Thousands(c, p) == p + (c \div ExpandOffset)
Rest(c) == c % ExpandOffset

FitsInt32(c, p) ==
    /\ \/ Thousands(c, p) < MaxInt32 \div ExpandOffset
       \/ Thousands(c, p) = MaxInt32 \div ExpandOffset /\ Rest(c) <= MaxInt32 % ExpandOffset
    /\ \/ Thousands(c, p) > MinInt32 \div ExpandOffset
       \/ Thousands(c, p) = MinInt32 \div ExpandOffset /\ Rest(c) >= MinInt32 % ExpandOffset

\* C2: every Expanded Field made from child field c through parent field p
\* stands for the c-th field of the referenced struct and, when
\* c.ID + p.ID * 1000 fits a 32-bit signed integer, has exactly that ID.
C2_AdjustedIDIsChildPlusParentTimes1000 ==
    \A e \in ExpandedAt :
        LET p == built[e[1]].fields[e[2]]
            R == Deref(ast, GoGetReferencedStruct(ast, includes, p.Field))
        IN  /\ Len(p.expandedFields) = Len(R.Fields)
            /\ \A j \in 1..Len(R.Fields) :
                  LET x == p.expandedFields[j]
                      c == R.Fields[j]
                  IN  /\ x.originalStructField = c
                      /\ FitsInt32(c.ID, p.Field.ID) =>
                            /\ x.Field.ID \div ExpandOffset = Thousands(c.ID, p.Field.ID)
                            /\ x.Field.ID % ExpandOffset = Rest(c.ID)

\* A field with ID 2147483 expanded a child with ID 647, the largest sum
\* that fits: the Expanded Field has ID 2147483647.
C2_Witness ==
    \E e \in ExpandedAt :
        LET p == built[e[1]].fields[e[2]]
        IN  /\ p.Field.ID = 2147483
            /\ p.expandedFields[1].originalStructField.ID = 647
            /\ p.expandedFields[1].Field.ID = MaxInt32

\* The IDs of a built struct-like: those of its declared fields and those
\* of its Expanded Fields, as <<kind, position, ID>>.
DeclaredIDs(st) == {<<"declared", <<i>>, st.fields[i].Field.ID>> : i \in 1..Len(st.fields)}
ExpandedIDs(st) ==
    UNION { {<<"expanded", <<i, j>>, st.fields[i].expandedFields[j].Field.ID>> :
                j \in 1..Len(st.fields[i].expandedFields)} : i \in 1..Len(st.fields) }

\* C3: in every built struct-like, synthesized ones included, the ID of an
\* Expanded Field differs from the ID of every declared field and from the
\* ID of every other Expanded Field.
C3_AdjustedIDsCollideWithNoSibling ==
    \A i \in 1..Len(built) :
        \A x \in ExpandedIDs(built[i]), y \in DeclaredIDs(built[i]) \cup ExpandedIDs(built[i]) :
            x # y => x[3] # y[3]

\* The accessor names of a built struct-like, as <<accessor, position, name>>;
\* an accessor the declared field does not have is the empty name.
Accessors == {"getter", "setter", "isset", "reader", "writer"}
DeclaredAccessors(st) ==
    {<<acc, <<i>>, st.fields[i][acc]>> : acc \in Accessors, i \in 1..Len(st.fields)}
ExpandedAccessors(st) ==
    UNION { {<<acc, <<i, j>>, st.fields[i].expandedFields[j][acc]>> :
                acc \in Accessors, j \in 1..Len(st.fields[i].expandedFields)} :
            i \in 1..Len(st.fields) }
BuiltinAccessors == {<<"builtin", <<>>, m>> : m \in {"Read", "Write", "String"}}

\* C4: in every built struct-like the getters, setters, presence checks,
\* readers and writers of the declared fields and of the Expanded Fields,
\* and the built-in Read, Write and String, are pairwise distinct names.
C4_AccessorNamesPairwiseDistinct ==
    \A i \in 1..Len(built) :
        \A x, y \in DeclaredAccessors(built[i]) \cup ExpandedAccessors(built[i])
                    \cup BuiltinAccessors :
            (x # y /\ x[3] # "") => x[3] # y[3]

\* The struct-like fields of the built struct-likes that the Go resolver
\* resolved: st is the position in built, p the position of the field.
GoResolvedAt ==
    {<<st, p>> \in (1..Len(built)) \X (1..(MaxFields + 2)) :
        /\ p <= Len(built[st].fields)
        /\ IsStructLike(built[st].fields[p].Field.Type.Category)
        /\ GoGetReferencedStruct(ast, includes, built[st].fields[p].Field) # Nil}

GoReferencedOf(f) == Deref(ast, GoGetReferencedStruct(ast, includes, f))
OaReferencedOf(f) == Deref(ast, OaGetReferencedStruct(ast, f))

MarkedExpandable(R) == R.Expandable = <<TRUE>>

\* The field is marked as expanded in the Expansion Record of struct-like st.
Marked(scope, st, f) ==
    /\ st.Name \in DOMAIN scope[1].ExpandedStructs
    /\ f.Name \in scope[1].ExpandedStructs[st.Name].ExpandedFieldNames

\* The fields of the file's struct-likes that the OpenAPI resolver resolved.
OaResolvedAt ==
    {<<st, p>> \in (1..Len(GetStructLikes(ast))) \X (1..(MaxFields + 2)) :
        /\ p <= Len(GetStructLikes(ast)[st].Fields)
        /\ OaGetReferencedStruct(ast, GetStructLikes(ast)[st].Fields[p]) # Nil}

\* The readings of "f carries thrift.expand = true".
CarriesTrue(f) == \E k \in 1..Len(f.Expand) : f.Expand[k] = "true"
CarriesOnlyTrue(f) == f.Expand = <<"true">>
CarriesOnlyTrueAnyCase(f) == Len(f.Expand) = 1 /\ f.Expand[1] \in {"true", "True", "TRUE"}

Annotated(reading, f) ==
    CASE reading = "some value is true" -> CarriesTrue(f)
      [] reading = "the one value is true" -> CarriesOnlyTrue(f)
      [] reading = "the one value is true in any case" -> CarriesOnlyTrueAnyCase(f)

\* Expansion in both backends under a reading of "annotated" for each: a
\* resolved field of the Go build expands exactly when it is annotated or
\* its struct is marked expandable; a resolved field of the OpenAPI build is
\* marked only then, and is marked then whenever its struct has a field to
\* inline.
ExpandsIff(goReading, oaReading) ==
    /\ \A e \in GoResolvedAt :
          LET f == built[e[1]].fields[e[2]]
          IN  f.isExpandable <=>
                  (Annotated(goReading, f.Field) \/ MarkedExpandable(GoReferencedOf(f.Field)))
    /\ oaScope # <<>> =>
          \A e \in OaResolvedAt :
              LET st == GetStructLikes(ast)[e[1]]
                  f == st.Fields[e[2]]
                  should == Annotated(oaReading, f) \/ MarkedExpandable(OaReferencedOf(f))
              IN  /\ Marked(oaScope, st, f) => should
                  /\ (should /\ Len(OaReferencedOf(f).Fields) > 0) => Marked(oaScope, st, f)

ClientNameTaken ==
    /\ pc = "services"
    /\ ~NsUsed(globals, ast.Services[idx].Name)
    /\ NsUsed(globals, ast.Services[idx].Name \o "Client")

\* C6: no panic escapes Scope.init and a failed build carries an error; and
\* when the service name + "Client" is already held by another declaration,
\* building that service fails the build with a returned error.
C6_ReserveConflictIsReturnedAsError ==
    /\ [](~escaped /\ (pc = "failed" => buildErr # ""))
    /\ [][ClientNameTaken => (pc' = "failed" /\ buildErr' # "" /\ ~escaped')]_vars

\* Service FooClient was built, then service Foo could not reserve
\* "FooClient": the build failed with an error and nothing escaped.
C6_Witness ==
    /\ pc = "failed" /\ buildErr # "" /\ ~escaped
    /\ Len(services) = 1 /\ Len(ast.Services) = 2
    /\ services[1].name = ast.Services[2].Name \o "Client"

(***************************************************************************)
(* Properties of the Expansion Records.                                    *)
(***************************************************************************)
\* The fields of the file's struct-likes whose type is a struct-like.
StructFieldsAt ==
    {<<st, p>> \in (1..Len(GetStructLikes(ast))) \X (1..(MaxFields + 2)) :
        /\ p <= Len(GetStructLikes(ast)[st].Fields)
        /\ IsStructLike(GetStructLikes(ast)[st].Fields[p].Type.Category)}

\* C9: a field whose referenced struct the resolver does not find is not
\* expanded by the Go build and is not marked in the Expansion Record of
\* the TypeScript build or of the OpenAPI build, whatever its annotation
\* and whatever its sibling fields do.
C9_UnresolvedIsNotExpanded ==
    /\ \A i \in 1..Len(built) : \A j \in 1..Len(built[i].fields) :
          LET f == built[i].fields[j]
          IN  (IsStructLike(f.Field.Type.Category)
               /\ GoGetReferencedStruct(ast, includes, f.Field) = Nil)
              => (~f.isExpandable /\ f.expandedFields = <<>>)
    /\ \A e \in StructFieldsAt :
          LET st == GetStructLikes(ast)[e[1]]
              f == st.Fields[e[2]]
          IN  /\ (tsScope # <<>> /\ TsGetReferencedStruct(ast, f) = Nil)
                    => ~Marked(tsScope, st, f)
              /\ (oaScope # <<>> /\ OaGetReferencedStruct(ast, f) = Nil)
                    => ~Marked(oaScope, st, f)

\* What an Expansion Record has to hold for its struct-like, refs[i] being
\* what the backend's resolver finds for the i-th field: the names of the
\* fields that expanded, and the fields of their referenced structs, in
\* declaration order.
RecordIsExact(rec, refs) ==
    LET fs == rec.OriginalStruct.Fields
        expands(i) == /\ refs[i] # Nil
                      /\ \/ CarriesOnlyTrue(fs[i])
                         \/ MarkedExpandable(Deref(ast, refs[i]))
    IN  /\ rec.ExpandedFieldNames = {fs[i].Name : i \in {k \in 1..Len(fs) : expands(k)}}
        /\ rec.ExpandedFields =
              Flatten([i \in 1..Len(fs) |->
                          IF expands(i) THEN Deref(ast, refs[i]).Fields ELSE <<>>])

TsRefs(st) == [i \in 1..Len(st.Fields) |-> TsGetReferencedStruct(ast, st.Fields[i])]
OaRefs(st) == [i \in 1..Len(st.Fields) |-> OaGetReferencedStruct(ast, st.Fields[i])]

\* C10: every Expansion Record of the TypeScript build and of the OpenAPI
\* build marks exactly the fields that expanded, and its flattened list
\* holds, per expanded field in declaration order, the fields of the
\* referenced struct with their own names.
C10_RecordMarksExactlyTheExpanded ==
    /\ tsScope # <<>> =>
          \A n \in DOMAIN tsScope[1].ExpandedStructs :
              RecordIsExact(tsScope[1].ExpandedStructs[n],
                            TsRefs(tsScope[1].ExpandedStructs[n].OriginalStruct))
    /\ oaScope # <<>> =>
          \A n \in DOMAIN oaScope[1].ExpandedStructs :
              RecordIsExact(oaScope[1].ExpandedStructs[n],
                            OaRefs(oaScope[1].ExpandedStructs[n].OriginalStruct))

(***************************************************************************)
(* Specification SpecRender: Generate of the TypeScript and of the OpenAPI *)
(* backend over a batch of files.  executeTemplates takes the files one by *)
(* one; renderOneFile builds the file's scope and renders it, every render *)
(* with a buffer of poolBuffer and under its own root scope.               *)
(***************************************************************************)
MaxBuffers == 2     \* buffers poolBuffer.New makes in one run

RECURSIVE JoinSlashes(_)
JoinSlashes(parts) ==
    IF parts = <<>> THEN ""
    ELSE IF Len(parts) = 1 THEN parts[1]
    ELSE parts[1] \o "/" \o JoinSlashes(Tail(parts))

\* getTypeScriptNamespace: the first ts / typescript namespace, its dots
\* replaced by slashes ("" when the file has none).
RECURSIVE GetTypeScriptNamespace(_)
GetTypeScriptNamespace(nss) ==
    IF nss = <<>> THEN ""
    ELSE IF Head(nss).Language \in {"ts", "typescript"} THEN JoinSlashes(Head(nss).Name)
    ELSE GetTypeScriptNamespace(Tail(nss))

\* strings.ToLower over the declaration names of the rendered files.
ToLowerTable ==
    [Base |-> "base", UserResp |-> "userresp", Status |-> "status", Foo |-> "foo"]
ToLower(name) == IF name \in DOMAIN ToLowerTable THEN ToLowerTable[name] ELSE name

\* A Go map that may be nil: <<>> is the nil map, <<m>> the map m.
NilMap == <<>>
MapHas(m, key) == m # NilMap /\ key \in DOMAIN m[1]

\* The Scope BuildScope returns for file a.
RenderScope(b, a) ==
    [Filename |-> a.Filename, Enums |-> a.Enums, Structs |-> a.Structs, Unions |-> a.Unions,
     Exceptions |-> a.Exceptions, Services |-> a.Services,
     ExpandedStructs |-> <<IF b = "typescript" THEN TsProcessExpandedStructs(a)
                           ELSE OaProcessExpandedStructs(a)>>]

\* The scopes the renders of renderSeparateFiles derive from the file's scope.
IndexScope(scope) == [scope EXCEPT !.ExpandedStructs = NilMap]

EnumScope(scope, enum) ==
    [Filename |-> scope.Filename, Enums |-> <<enum>>, Structs |-> <<>>, Unions |-> <<>>,
     Exceptions |-> <<>>, Services |-> <<>>, ExpandedStructs |-> NilMap]

StructScope(scope, structLike) ==
    [Filename |-> scope.Filename, Enums |-> <<>>, Structs |-> <<structLike>>, Unions |-> <<>>,
     Exceptions |-> <<>>, Services |-> <<>>, ExpandedStructs |-> scope.ExpandedStructs]

ServiceScope(scope, service) ==
    [Filename |-> scope.Filename, Enums |-> <<>>, Structs |-> <<>>, Unions |-> <<>>,
     Exceptions |-> <<>>, Services |-> <<service>>, ExpandedStructs |-> NilMap]

\* One render: the template, the scope it is executed on, the output file.
Render(template, scope, dir, base) ==
    [template |-> template, scope |-> scope, dir |-> dir, base |-> base]

RenderIndexFile(scope, basePath) == Render("index", IndexScope(scope), basePath, "index.ts")

RenderEnumFile(scope, basePath, enum) ==
    Render("singleEnum", EnumScope(scope, enum), basePath, ToLower(enum.Name) \o ".ts")

RenderStructFile(scope, basePath, structLike) ==
    Render("singleStruct", StructScope(scope, structLike), basePath,
           ToLower(structLike.Name) \o ".ts")

RenderServiceFile(scope, basePath, service) ==
    Render("singleService", ServiceScope(scope, service), basePath,
           ToLower(service.Name) \o ".ts")

\* renderSeparateFiles: the index, then a file per enum, struct, union,
\* exception and service, in this order.
RenderSeparateFiles(scope, basePath) ==
    <<RenderIndexFile(scope, basePath)>>
    \o [i \in 1..Len(scope.Enums) |-> RenderEnumFile(scope, basePath, scope.Enums[i])]
    \o [i \in 1..Len(scope.Structs) |-> RenderStructFile(scope, basePath, scope.Structs[i])]
    \o [i \in 1..Len(scope.Unions) |-> RenderStructFile(scope, basePath, scope.Unions[i])]
    \o [i \in 1..Len(scope.Exceptions) |->
           RenderStructFile(scope, basePath, scope.Exceptions[i])]
    \o [i \in 1..Len(scope.Services) |-> RenderServiceFile(scope, basePath, scope.Services[i])]

\* renderOneFile: the renders it makes for file a, given the file's scope.
RenderOneFile(b, a, scope) ==
    IF b = "typescript" /\ GetTypeScriptNamespace(a.Namespaces) # ""
    THEN RenderSeparateFiles(scope, GetTypeScriptNamespace(a.Namespaces))
    ELSE <<Render("file", scope, "", a.Filename)>>

\* A mutation of PoolPut: the buffer is not given back.
PoolKeep(p, b) == p

\* poolBuffer.Put(b).
PoolPut(p, b) ==
    [p EXCEPT !.free = @ \cup {b}, !.out = @ \ {b}, !.puts = @ + 1]

\* The buffers poolBuffer.Get may return: one of the pool, or a new one.
PoolOffers(p) == p.free \cup (IF p.made < MaxBuffers THEN {p.made + 1} ELSE {})

\* poolBuffer.Get() returning buffer b.
PoolGet(p, b) ==
    [p EXCEPT !.made = IF b > @ THEN b ELSE @, !.free = @ \ {b}, !.out = @ \cup {b},
              !.gets = @ + 1]

\* typescript getExpandedFields: nil without a root scope and for a name
\* the root scope has no record of.
TsGetExpandedFields(root, structLike) ==
    IF root = Nil THEN Nil
    ELSE IF ~MapHas(root[1].ExpandedStructs, structLike.Name) THEN Nil
    ELSE root[1].ExpandedStructs[1][structLike.Name].ExpandedFields

\* openapi GetExpandedFields: it also wants the AST to be set.
OaGetExpandedFields(root, a, structLike) ==
    IF root = Nil \/ a = Nil THEN Nil
    ELSE IF MapHas(root[1].ExpandedStructs, structLike.Name)
         THEN root[1].ExpandedStructs[1][structLike.Name].ExpandedFields
         ELSE Nil

GetExpandedFields(b, root, a, structLike) ==
    IF b = "typescript" THEN TsGetExpandedFields(root, structLike)
    ELSE OaGetExpandedFields(root, a, structLike)

\* Where Generate stands once the current file has no render left.
AfterFile(n) == IF n < Len(trees) THEN "loop" ELSE "response"

\* processed[ast]: the loop has taken this file before.
Processed(n) == \E j \in 1..(n - 1) : trees[j] = trees[n]

\* One turn of the loop of executeTemplates, up to the first render of the
\* file: a file taken before is skipped, any other gets its scope built.
ExecuteTemplatesTakeFile ==
    /\ rpc = "loop" /\ fileNo < Len(trees)
    /\ fileNo' = fileNo + 1
    /\ IF Processed(fileNo + 1)
       THEN /\ rpc' = AfterFile(fileNo + 1)
            /\ steps' = <<>>
       ELSE /\ steps' = RenderOneFile(backend, trees[fileNo + 1],
                                      RenderScope(backend, trees[fileNo + 1]))
            /\ rpc' = "render"
    /\ UNCHANGED <<backend, trees, rootScope, uast, w, pool, contents, err, response, lookups>>
    /\ UNCHANGED <<ast, parsed, buildVars, ns, nsLog, query, answer, tagVars>>

\* renderByTemplate up to the call of ExecuteTemplate: the buffer is taken
\* from the pool and the root scope is switched to the scope of the render.
RenderBegin ==
    /\ rpc = "render"
    /\ \E b \in PoolOffers(pool) :
          /\ pool' = PoolGet(pool, b)
          /\ w' = <<b>>
    /\ rootScope' = <<steps[1].scope>>
    /\ uast' = IF backend = "openapi" THEN <<steps[1].scope.Filename>> ELSE uast
    /\ rpc' = "executing"
    /\ UNCHANGED <<backend, trees, fileNo, steps, contents, err, response, lookups>>
    /\ UNCHANGED <<ast, parsed, buildVars, ns, nsLog, query, answer, tagVars>>

\* The struct-likes a template finds in the scope it is executed on.
StructLikesOf(scope) == scope.Structs \o scope.Unions \o scope.Exceptions

\* The template calls GetExpandedFields on a struct-like of its scope.
TemplateLooksUp ==
    /\ rpc = "executing"
    /\ \E i \in 1..Len(StructLikesOf(steps[1].scope)) :
          lookups' = lookups \cup
              {[file |-> steps[1].scope.Filename, template |-> steps[1].template,
                name |-> StructLikesOf(steps[1].scope)[i].Name,
                fields |-> GetExpandedFields(backend, rootScope, uast,
                                             StructLikesOf(steps[1].scope)[i])]}
    /\ UNCHANGED <<backend, trees, fileNo, steps, rpc, rootScope, uast, w, pool, contents, err,
                   response>>
    /\ UNCHANGED <<ast, parsed, buildVars, ns, nsLog, query, answer, tagVars>>

\* ExecuteTemplate returned nil: the output is appended, the deferred Put
\* runs, and the next render of the file or the next file follows.
ExecuteTemplateReturns ==
    /\ rpc = "executing"
    /\ contents' = Append(contents, [Name |-> [dir |-> steps[1].dir, base |-> steps[1].base],
                                     File |-> steps[1].scope.Filename])
    /\ pool' = PoolPut(pool, w[1])
    /\ w' = <<>>
    /\ steps' = Tail(steps)
    /\ rpc' = IF Tail(steps) # <<>> THEN "render" ELSE AfterFile(fileNo)
    /\ UNCHANGED <<backend, trees, fileNo, rootScope, uast, err, response, lookups>>
    /\ UNCHANGED <<ast, parsed, buildVars, ns, nsLog, query, answer, tagVars>>

\* ExecuteTemplate returned an error: the deferred Put runs, the error goes
\* up to executeTemplates, which stores it and leaves the loop.
ExecuteTemplateFails ==
    /\ rpc = "executing"
    /\ pool' = PoolPut(pool, w[1])
    /\ w' = <<>>
    /\ err' = steps[1].base \o ": template error"
    /\ steps' = <<>>
    /\ rpc' = "response"
    /\ UNCHANGED <<backend, trees, fileNo, rootScope, uast, contents, response, lookups>>
    /\ UNCHANGED <<ast, parsed, buildVars, ns, nsLog, query, answer, tagVars>>

\* buildResponse: the error response when err is set, res otherwise.
BuildResponse ==
    /\ rpc = "response"
    /\ response' = <<IF err # "" THEN [Error |-> err, Contents |-> <<>>]
                     ELSE [Error |-> "", Contents |-> contents]>>
    /\ rpc' = "returned"
    /\ UNCHANGED <<backend, trees, fileNo, steps, rootScope, uast, w, pool, contents, err,
                   lookups>>
    /\ UNCHANGED <<ast, parsed, buildVars, ns, nsLog, query, answer, tagVars>>

NextRender ==
    \/ ExecuteTemplatesTakeFile
    \/ RenderBegin
    \/ TemplateLooksUp
    \/ ExecuteTemplateReturns
    \/ ExecuteTemplateFails
    \/ BuildResponse

\* The files of a batch.
TsNamespaces == { <<>>, <<[Language |-> "go", Name |-> <<"api">>],
                         [Language |-> "ts", Name |-> <<"api", "v1">>]>> }

RenderBase(nss) ==
    File("base.thrift", <<>>, <<DeclBase(Children(1, 1), <<>>)>>, <<>>, <<>>, <<>>)
        @@ [Namespaces |-> nss]

RenderMain(nss, anno) ==
    [MainFile(DeclBase(Children(1, 1), <<>>),
              <<UserResp(<<Field(1, "base", LocalBase, "default", anno)>>)>>, <<>>,
              <<Service("Foo", <<>>)>>)
       EXCEPT !.Enums = <<[Name |-> "Status"]>>] @@ [Namespaces |-> nss]

RenderBatches ==
    { <<RenderMain(nss, anno)>> : nss \in TsNamespaces, anno \in {<<>>, <<"true">>} }
    \cup { <<RenderBase(nss), RenderMain(nss, <<"true">>)>> : nss \in TsNamespaces }
    \cup { <<RenderMain(nss, <<"true">>), RenderBase(nss), RenderBase(nss)>> :
             nss \in TsNamespaces }

InitRender ==
    /\ ast = NoFile /\ parsed = ast /\ features = NoFeatures
    /\ IdleBuild /\ IdleNs /\ IdleResolve /\ IdleTags
    /\ backend \in {"typescript", "openapi"}
    /\ trees \in RenderBatches
    /\ fileNo = 0 /\ steps = <<>> /\ rpc = "loop"
    /\ rootScope = Nil /\ uast = Nil /\ w = <<>> /\ pool = EmptyPool
    /\ contents = <<>> /\ err = "" /\ response = <<>> /\ lookups = {}

SpecRender == InitRender /\ [][NextRender]_vars

\* C11: looking up the Expanded Fields of the same structure of the same
\* file twice gives the same list, whatever renders and root-scope
\* switches happened in between.
C11_LookupGivesTheSameListEveryTime ==
    \A one, other \in lookups :
        (one.file = other.file /\ one.name = other.name) => one.fields = other.fields

\* The outputs a response holds for the file called filename.
OutputsOf(resp, filename) ==
    {k \in 1..Len(resp.Contents) : resp.Contents[k].File = filename}

\* C17: when one file of a batch fails, every other file of the batch is
\* still rendered and its outputs are in the response of the run.
C17_FailedFileDoesNotBlockSiblings ==
    rpc = "returned" =>
        \A i \in 1..Len(trees) :
            (err = "" \/ trees[i] # trees[fileNo]) =>
                OutputsOf(response[1], trees[i].Filename) # {}

\* C19: a buffer taken from the pool is owned by the one render that took
\* it while that render runs, and is given back exactly once when the
\* render ends, on the error path as on the success path.
C19_BufferReturnedExactlyOnce ==
    /\ pool.free \cap pool.out = {}
    /\ rpc = "executing" => (w # <<>> /\ pool.out = {w[1]} /\ pool.gets = pool.puts + 1)
    /\ rpc # "executing" => (w = <<>> /\ pool.out = {} /\ pool.gets = pool.puts)

\* A run in which a render succeeded and a later one failed has ended.
C19_Witness ==
    /\ rpc = "returned" /\ err # "" /\ contents # <<>>
    /\ pool.puts >= 2 /\ pool.out = {}

\* The type descriptor points into the include at position k of includes.
RefersTo(t, k) == t.Reference # NoRef /\ t.Reference[1].Index + 1 = k

\* The package of include k qualifies the resolved type name.
QualifiedBy(tn, k) == Len(tn.parts) >= 2 /\ tn.parts[1] = includes[k][1].PackageName

\* The only references of the file to include k are declared types of
\* fields that were expanded, no Expanded Field's resolved type is qualified
\* by the include, and no function, typedef or constant refers to it.
OnlyExpandedAwayRefersTo(k) ==
    /\ \E i \in 1..Len(FieldsToResolve(built)) :
          /\ RefersTo(FieldsToResolve(built)[i].Field.Type, k)
          /\ FieldsToResolve(built)[i].expandedFields # <<>>
    /\ \A i \in 1..Len(FieldsToResolve(built)) :
          /\ RefersTo(FieldsToResolve(built)[i].Field.Type, k)
                => FieldsToResolve(built)[i].isExpandable
          /\ \A j \in 1..Len(resolved.fields[i].expandedFields) :
                ~QualifiedBy(resolved.fields[i].expandedFields[j].typeName, k)
    /\ \A i \in 1..Len(ast.Services) : \A j \in 1..Len(ast.Services[i].Functions) :
          /\ ~RefersTo(ast.Services[i].Functions[j].FunctionType, k)
          /\ \A h \in 1..Len(ast.Services[i].Functions[j].Arguments) :
                ~RefersTo(ast.Services[i].Functions[j].Arguments[h].Type, k)
          /\ \A h \in 1..Len(ast.Services[i].Functions[j].Throws) :
                ~RefersTo(ast.Services[i].Functions[j].Throws[h].Type, k)
    /\ \A i \in 1..Len(ast.Typedefs) : ~RefersTo(ast.Typedefs[i].Type, k)
    /\ \A i \in 1..Len(ast.Constants) : ~RefersTo(ast.Constants[i].Type, k)

\* C12: an include whose only references are declared types of fields that
\* were expanded away is marked unused once the build is through.
C12_ExpandedAwayIncludeIsMarkedUnused ==
    pc = "done" =>
        \A k \in 1..Len(includes) :
            (includes[k] # Nil /\ OnlyExpandedAwayRefersTo(k))
                => IncludeIDL(includes[k][1]) \in libNotUsed

\* A build is through in which base.thrift was referenced by an expanded
\* field only and is now marked unused.
C12_Witness ==
    /\ pc = "done" /\ includes # <<>> /\ includes[1] # Nil
    /\ OnlyExpandedAwayRefersTo(1)
    /\ libNotUsed = {"base"}

\* The include the descriptor's Reference points at declares the name.
DeclaredInInclude(t) ==
    /\ t.Reference # NoRef /\ ContainsDot(t.Name)
    /\ t.Reference[1].Index + 1 \in 1..Len(includes)
    /\ includes[t.Reference[1].Index + 1] # Nil
    /\ NsGet(IncludedGlobals(includes[t.Reference[1].Index + 1][1]), t.Reference[1].Name) # ""

\* The allocated identifier of the referenced declaration, behind the
\* package of the include that declares it.
QualifiedIdentifier(t) ==
    <<includes[t.Reference[1].Index + 1][1].PackageName,
      NsGet(IncludedGlobals(includes[t.Reference[1].Index + 1][1]), t.Reference[1].Name)>>

\* C14: an argument or return type ns.T declared in an included file
\* resolves to T's allocated identifier qualified by the package of the
\* include that declares the referenced T.
C14_QualifiedTypeNamesTheDeclaringInclude ==
    pc \in {"resolved", "done"} =>
        \A i \in 1..Len(services) : \A j \in 1..Len(services[i].functions) :
            /\ \A h \in 1..Len(services[i].functions[j].Function.Arguments) :
                  DeclaredInInclude(services[i].functions[j].Function.Arguments[h].Type)
                    => resolved.functions[i][j].arguments[h].typeName.parts
                         = QualifiedIdentifier(
                               services[i].functions[j].Function.Arguments[h].Type)
            /\ \A h \in 1..Len(resolved.functions[i][j].response) :
                  DeclaredInInclude(services[i].functions[j].Function.FunctionType)
                    => resolved.functions[i][j].response[h].typeName.parts
                         = QualifiedIdentifier(services[i].functions[j].Function.FunctionType)

\* C13: the response type of a function that is neither oneway nor void is
\* the resolution of its declared return type, also when the success field
\* of the result structure expands.
C13_ResponseTypeIsTheDeclaredReturnType ==
    pc \in {"resolved", "done"} =>
        \A i \in 1..Len(services) : \A j \in 1..Len(services[i].functions) :
            ( /\ ~services[i].functions[j].Function.Oneway
              /\ ~services[i].functions[j].Function.Void
              /\ ResolveTypeName(includes, globals,
                                 services[i].functions[j].Function.FunctionType).ok )
            => resolved.functions[i][j].response[1].typeName.parts
                 = ResolveTypeName(includes, globals,
                                   services[i].functions[j].Function.FunctionType).typeName.parts

\* Where the qualified names are right, the response type is the declared one.
C13_HoldsWhereC14Holds ==
    C14_QualifiedTypeNamesTheDeclaringInclude => C13_ResponseTypeIsTheDeclaredReturnType

\* The success field of a result structure expanded and the response type
\* is the declared return type all the same.
C13_ExpandedSuccessKeepsDeclaredType ==
    pc \in {"resolved", "done"} =>
        \A i \in 1..Len(services) : \A j \in 1..Len(services[i].functions) :
            ( /\ resolved.functions[i][j].response # <<>>
              /\ services[i].functions[j].resType[1].fields[1].expandedFields # <<>>
              /\ ~ContainsDot(services[i].functions[j].Function.FunctionType.Name) )
            => resolved.functions[i][j].response[1].typeName
                 = ResolveTypeName(includes, globals,
                                   services[i].functions[j].Function.FunctionType).typeName

\* The phases of resolveTypesAndValues after the loop of resolveFieldTypes
\* have begun: pc is past "installed", or typedefs or constants are stored.
LaterPhaseBegun ==
    \/ pc \in {"fieldsResolved", "pruned", "resolved", "done"}
    \/ resolved.typedefs # <<>> \/ resolved.constants # <<>> \/ resolved.functions # <<>>
    \/ libNotUsed # {}

\* C18: no phase after the loop of resolveFieldTypes begins before the
\* producer has sent every field and closed the channel and the consumer
\* has stored the result of every field sent; the loop is left only on a
\* closed channel.
C18_LaterPhasesWaitForTheClosedChannel ==
    /\ [](LaterPhaseBegun =>
            /\ ff.closed /\ resolving = 0
            /\ ff.sent = Len(FieldsToResolve(built))
            /\ Len(resolved.fields) = ff.sent)
    /\ [][(pc = "installed" /\ pc' \in {"fieldsResolved", "exited"} /\ resolving = 0)
            => ff.closed]_vars

C18_Witness ==
    /\ pc = "fieldsResolved" /\ ff.closed
    /\ Len(FieldsToResolve(built)) >= 3
    /\ Len(resolved.fields) = Len(FieldsToResolve(built))

RequiredField == [Field |-> Field(1, "name", StringType, "required", <<>>)]
OptionalField == [Field |-> Field(2, "email", StringType, "optional", <<>>)]
TagFields == {RequiredField, OptionalField}

\* The features of NewCodeUtils, the binding tag being off.
DefaultFeatures == NoFeatures @@ [GenBindingTag |-> FALSE]

\* One tag of a struct field: key:"value".
Tag(key, value) == [key |-> key, value |-> value]

\* strings.Contains(tags, `key:"value"`) and strings.Contains(tags, `key:"`).
ContainsTag(tags, key, value) == \E i \in 1..Len(tags) : tags[i] = Tag(key, value)
ContainsKey(tags, key) == \E i \in 1..Len(tags) : tags[i].key = key

\* The binding tag of a field: "required" for a required field, "-" for an
\* optional one.
BindingTag(f) ==
    IF f.Field.Requiredness = "required" THEN <<Tag("binding", "required")>>
    ELSE <<Tag("binding", "-")>>

\* CodeUtils.GenFieldTags with no insert pointer: the thrift and json tags,
\* and the binding tag when the feature is on at the time of the call.
GenFieldTags(f, insertPointer) ==
    << Tag("thrift", <<f.Field.Name, f.Field.ID, f.Field.Requiredness>>),
       Tag("json", f.Field.Name) >>
    \o (IF features.GenBindingTag THEN BindingTag(f) ELSE <<>>)

\* A mutation of SetFeatures: the features of the CodeUtils stay as they were.
KeepFeatures(stored, fs) == stored

\* CodeUtils.SetFeatures: the features given replace the stored ones.
SetFeatures(stored, fs) == fs

\* features := cu.Features(): the caller gets a copy.
TagsFeatures ==
    /\ handle # features
    /\ handle' = features
    /\ UNCHANGED <<ast, parsed, buildVars, ns, nsLog, query, answer, tagLog,
                   backend, trees, fileNo, steps, rpc, rootScope, uast, w, pool, contents,
                   err, response, lookups>>

\* features.GenBindingTag = b: the caller writes to its copy.
TagsSetFlag ==
    \E b \in BOOLEAN :
        /\ handle # <<>> /\ handle.GenBindingTag # b
        /\ handle' = [handle EXCEPT !.GenBindingTag = b]
        /\ UNCHANGED <<ast, parsed, buildVars, ns, nsLog, query, answer, tagLog,
                       backend, trees, fileNo, steps, rpc, rootScope, uast, w, pool,
                       contents, err, response, lookups>>

\* cu.SetFeatures(features).
TagsSetFeatures ==
    /\ handle # <<>> /\ Len(tagLog) < MaxTagCalls
    /\ features' = SetFeatures(features, handle)
    /\ tagLog' = Append(tagLog, [op |-> "SetFeatures", flag |-> handle.GenBindingTag])
    /\ UNCHANGED <<ast, parsed, pc, idx, includes, globals, built, services, buildErr, escaped,
                   tsScope, oaScope, resolveVars, ns, nsLog, query, answer, handle,
                   backend, trees, fileNo, steps, rpc, rootScope, uast, w, pool, contents,
                   err, response, lookups>>

\* tags, err := cu.GenFieldTags(f, "").
TagsGenFieldTags ==
    \E f \in TagFields :
        /\ Len(tagLog) < MaxTagCalls
        /\ tagLog' = Append(tagLog, [op |-> "GenFieldTags", field |-> f,
                                     tags |-> GenFieldTags(f, "")])
        /\ UNCHANGED <<ast, parsed, buildVars, ns, nsLog, query, answer, handle,
                       backend, trees, fileNo, steps, rpc, rootScope, uast, w, pool,
                       contents, err, response, lookups>>

NextTags == TagsFeatures \/ TagsSetFlag \/ TagsSetFeatures \/ TagsGenFieldTags

InitTags ==
    /\ ast = NoFile /\ parsed = ast /\ features = DefaultFeatures
    /\ IdleBuild /\ IdleNs /\ IdleResolve
    /\ backend = "" /\ trees = <<>> /\ fileNo = 0 /\ steps = <<>> /\ rpc = "idle"
    /\ rootScope = <<>> /\ uast = <<>> /\ w = <<>> /\ pool = EmptyPool
    /\ contents = <<>> /\ err = "" /\ response = <<>> /\ lookups = {}
    /\ IdleTags

SpecTags == InitTags /\ [][NextTags]_vars

\* The flag of the last SetFeatures before call i of the log (i itself when
\* it is a SetFeatures), and whether there is one.
SetBefore(i) == {h \in 1..i : tagLog[h].op = "SetFeatures"}
LastSet(i) == tagLog[CHOOSE h \in SetBefore(i) : \A g \in SetBefore(i) : g <= h].flag

PhaseRank(p) ==
    CASE p = "start" -> 0
      [] p = "services" -> 1
      [] p = "structs" -> 2
      [] p = "enums" -> 3
      [] p = "typedefs" -> 4
      [] p = "constants" -> 5
      [] p = "installed" -> 6
      [] p \in {"fieldsResolved", "pruned", "resolved", "done"} -> 7
      [] OTHER -> 8

\* The synthesized structures of the services of a file, service by service
\* and function by function, then its standalone struct-likes.
RECURSIVE SynthesizedOf(_)
SynthesizedOf(fns) ==
    IF fns = <<>> THEN <<>>
    ELSE <<SynthArgs(Head(fns))>>
         \o (IF Head(fns).Oneway THEN <<>> ELSE <<SynthResult(Head(fns))>>)
         \o SynthesizedOf(Tail(fns))

RECURSIVE SynthesizedOfServices(_)
SynthesizedOfServices(svcs) ==
    IF svcs = <<>> THEN <<>>
    ELSE SynthesizedOf(Head(svcs).Functions) \o SynthesizedOfServices(Tail(svcs))

BuildOrder(a) == SynthesizedOfServices(a.Services) \o GetStructLikes(a)

\* The file-level declarations in the order installNames names them.
DeclaredKeys(a) ==
    [i \in 1..Len(a.Services) |-> a.Services[i].Name]
    \o [i \in 1..Len(GetStructLikes(a)) |-> GetStructLikes(a)[i].Name]
    \o [i \in 1..Len(a.Enums) |-> a.Enums[i].Name]
    \o [i \in 1..Len(a.Typedefs) |-> a.Typedefs[i].Alias]
    \o [i \in 1..Len(a.Constants) |-> a.Constants[i].Name]

\* Type resolution of the scope has begun.
ResolutionBegun == ff # NoChan \/ resolving # 0 \/ resolved # NoTypes

\* The structures built so far are the first ones of the build order.
BuiltInOrder ==
    /\ Len(built) <= Len(BuildOrder(ast))
    /\ \A k \in 1..Len(built) : built[k].StructLike = BuildOrder(ast)[k]

\* C21: names are allocated service by service (the functions of a service,
\* then its synthesized structures), then for the standalone struct-likes,
\* the enums, the typedefs and the constants, a later declaration never
\* taking the identifier from an earlier one; type resolution begins only
\* when every declaration of the file has its name.
C21_NamesAreAllocatedInFixedOrder ==
    /\ [][(firstBuild' = firstBuild) => PhaseRank(pc') >= PhaseRank(pc)]_vars
    /\ [](pc # "idle" => BuiltInOrder)
    /\ [](pc = "services" =>
             /\ Len(services) = idx - 1
             /\ Len(built) = Len(SynthesizedOfServices(SubSeq(ast.Services, 1, idx - 1))))
    /\ [](PhaseRank(pc) \in 3..7 => Len(built) = Len(BuildOrder(ast)))
    /\ []((firstBuild = <<>> /\ PhaseRank(pc) \in 1..5) =>
             \A k \in 1..Len(DeclaredKeys(ast)) :
                 \A h \in 1..(k - 1) :
                     ( /\ NsGet(globals, DeclaredKeys(ast)[k]) # ""
                       /\ \A e \in 1..(k - 1) : DeclaredKeys(ast)[e] # DeclaredKeys(ast)[k] )
                     => /\ NsGet(globals, DeclaredKeys(ast)[h]) # ""
                        /\ NsGet(globals, DeclaredKeys(ast)[h])
                             # NsGet(globals, DeclaredKeys(ast)[k]))
    /\ [](ResolutionBegun =>
             /\ PhaseRank(pc) >= 6
             /\ pc # "failed" =>
                   /\ Len(built) = Len(BuildOrder(ast))
                   /\ Len(services) = Len(ast.Services)
                   /\ \A k \in 1..Len(DeclaredKeys(ast)) :
                         NsGet(globals, DeclaredKeys(ast)[k]) # ""
                   /\ \A i \in 1..Len(services) :
                         \A j \in 1..Len(services[i].functions) :
                            NsGet(services[i].scope, ast.Services[i].Functions[j].Name) # "")

C21_Witness ==
    /\ pc = "done" /\ resolved.fields # <<>>
    /\ Len(services) = 2 /\ ast.Enums # <<>> /\ ast.Typedefs # <<>> /\ ast.Constants # <<>>
    /\ \E k \in 1..Len(built) : ~built[k].synthesized
    /\ NsGet(globals, "data") = "Data" /\ NsGet(globals, "Data") = "Data_"
    /\ NsGet(globals, "status") = "Status" /\ NsGet(globals, "Status") = "Status_"

\* The step of checkUnusedPackagesAfterExpansion, and the step that stores
\* the types of the functions.
PruningStep == pc = "fieldsResolved" /\ pc' = "pruned"
FunctionTypesStep == resolved'.functions # resolved.functions /\ firstBuild' = firstBuild

\* The types the pruning reads are resolved: fields and their Expanded
\* Fields, typedefs and constants.
DeclaredTypesResolved ==
    /\ ff.closed /\ resolving = 0
    /\ Len(resolved.fields) = Len(FieldsToResolve(built))
    /\ Len(resolved.typedefs) = Len(ast.Typedefs)
    /\ Len(resolved.constants) = Len(ast.Constants)

C23_IncludesKeepTheirPositions ==
    /\ [](pc \notin {"idle", "start"} =>
             /\ Len(includes) >= Len(ast.Includes)
             /\ \A i \in 1..Len(ast.Includes) :
                   includes[i] = IF ast.Includes[i].Used THEN GoInclude(ast.Includes[i])
                                 ELSE Nil)
    /\ [][(pc # "start" /\ firstBuild' = firstBuild) =>
             /\ Len(includes') >= Len(includes)
             /\ \A i \in 1..Len(includes) : includes'[i] = includes[i]]_vars

C23_Witness ==
    /\ pc = "done"
    /\ Len(includes) > Len(ast.Includes)
    /\ Len(ast.Includes) = 2
    /\ \A i \in 1..Len(ast.Includes) : includes[i] = GoInclude(ast.Includes[i])

\* The struct-likes of the file with a field the backend marks as expanded.
TsHasExpandableField(st) ==
    \E i \in 1..Len(st.Fields) : FlatMarks(st.Fields[i], TsGetReferencedStruct(ast, st.Fields[i]), ast)
OaHasExpandableField(st) ==
    \E i \in 1..Len(st.Fields) : FlatMarks(st.Fields[i], OaGetReferencedStruct(ast, st.Fields[i]), ast)

\* One backend's map has an entry for exactly the struct-likes of the file
\* with an expandable field.
TsRecordsExactlyTheExpandable ==
    tsScope # <<>> =>
        \A i \in 1..Len(GetStructLikes(ast)) :
            (GetStructLikes(ast)[i].Name \in DOMAIN tsScope[1].ExpandedStructs)
                <=> TsHasExpandableField(GetStructLikes(ast)[i])
OaRecordsExactlyTheExpandable ==
    oaScope # <<>> =>
        \A i \in 1..Len(GetStructLikes(ast)) :
            (GetStructLikes(ast)[i].Name \in DOMAIN oaScope[1].ExpandedStructs)
                <=> OaHasExpandableField(GetStructLikes(ast)[i])

\* C24: a struct, union or exception has an entry in the Expansion Record
\* map of a scope if and only if it has at least one expandable field.
C24_RecordIffExpandableField ==
    TsRecordsExactlyTheExpandable /\ OaRecordsExactlyTheExpandable

\* The import alias a resolved type name is qualified by: what stands
\* before the last dot of the name, pointer and container marks aside.
QualifierOf(tn) ==
    IF tn # NoTypeName /\ Len(tn.parts) >= 2 THEN {JoinDots(Front(tn.parts))} ELSE {}

\* The aliases that qualify the resolved type name of a field, an Expanded
\* Field, a typedef or a constant of the scope.
QualifiersInUse ==
    UNION { QualifierOf(resolved.fields[i].typeName)
            \cup UNION { QualifierOf(resolved.fields[i].expandedFields[j].typeName) :
                            j \in 1..Len(resolved.fields[i].expandedFields) } :
            i \in 1..Len(resolved.fields) }
    \cup UNION { QualifierOf(resolved.typedefs[i].typeName) : i \in 1..Len(resolved.typedefs) }
    \cup UNION { QualifierOf(resolved.constants[i].typeName) : i \in 1..Len(resolved.constants) }

\* C25: after the pruning an include is marked unused if and only if it was
\* marked used and its alias qualifies no resolved type name; an include a
\* non-expanded field refers to through a pointer type stays used, and an
\* include that was not marked used is left as it was.
C25_PrunedIffAliasQualifiesNoType ==
    pc \in {"pruned", "resolved", "done"} =>
        /\ \A k \in 1..Len(includes) :
              includes[k] # Nil =>
                 ((IncludeIDL(includes[k][1]) \in libNotUsed)
                     <=> (includes[k][1].PackageName \notin QualifiersInUse))
        /\ \A k \in 1..Len(ast.Includes) :
              ~ast.Includes[k].Used => ast.Includes[k].PackageName \notin libNotUsed

\* The pruning as the code computes it: the alias is compared with the text
\* before the last dot, the pointer star included.
C25_PrunedIffNoNameStartsWithAlias ==
    pc \in {"pruned", "resolved", "done"} =>
        \A k \in 1..Len(includes) :
            includes[k] # Nil =>
               ((IncludeIDL(includes[k][1]) \in libNotUsed)
                   <=> (includes[k][1].PackageName
                          \notin CollectActuallyUsedPackages(resolved.fields, resolved.typedefs,
                                                             resolved.constants)))

(***************************************************************************)
(* C26: the tree the parser produced is not written by a scope build.      *)
(***************************************************************************)
\* C26: after a scope build under any feature flags every struct-like of the
\* tree has the fields the parser produced, in the same order, with the same
\* IDs, names and types.
C26_BuildLeavesTheTreeAsParsed ==
    pc # "start" => GetStructLikes(ast) = GetStructLikes(parsed)

\* What the code keeps: without the reordering feature the tree is the
\* parser's, expansion included.
C26_TreeAsParsedWithoutReordering ==
    (pc # "start" /\ ~features.ReorderFields) => ast = parsed

\* The reordering feature acted on a struct declared smallest field first,
\* and the build went on to the end.
C26_Reordered ==
    /\ pc = "done" /\ features.ReorderFields
    /\ GetStructLikes(ast) # GetStructLikes(parsed)

(***************************************************************************)
(* C27: the channel of resolveTypesAndValues.                              *)
(***************************************************************************)
\* The producer is blocked in ff <- f or has not reached close(ff).
ProducerPending == ~ff.closed

\* While the loop runs: the fields sent are a prefix of the fields of the
\* struct-likes and synthesized structures, each sent field but the one in
\* the loop body has its types, and the one in the body is the last sent.
SentOnceResolvedOnce ==
    pc = "installed" =>
        /\ ff.sent <= Len(FieldsToResolve(built))
        /\ Len(resolved.fields) + (IF resolving # 0 THEN 1 ELSE 0) = ff.sent
        /\ resolving # 0 => resolving = ff.sent
        /\ ff.closed => ff.sent = Len(FieldsToResolve(built))

\* After the loop returned without an error: every field was sent and
\* resolved, the channel is closed and nothing waits on it.
LoopLeavesNothingBehind ==
    pc \in {"fieldsResolved", "pruned", "resolved", "done"} =>
        /\ ff.closed /\ ~ProducerPending /\ resolving = 0
        /\ ff.sent = Len(FieldsToResolve(built))
        /\ Len(resolved.fields) = Len(FieldsToResolve(built))

\* C27: every field of every struct-like and synthesized structure is sent
\* once and resolved once, one at a time; unless a resolution fails the
\* producer closes the channel and the loop of the consumer ends, with no
\* goroutine left waiting on the channel.
C27_EveryFieldOnceAndTheLoopEnds ==
    /\ [](SentOnceResolvedOnce /\ LoopLeavesNothingBehind)
    /\ (pc = "installed") ~> \/ pc = "fieldsResolved" /\ ff.closed /\ resolving = 0
                             \/ pc \in {"failed", "exited"}

\* A build with fields of a declared struct and of a synthesized structure
\* went through the loop.
C27_Witness ==
    /\ pc = "done" /\ ff.closed
    /\ \E i, j \in 1..Len(built) :
          /\ built[i].synthesized /\ Len(built[i].fields) > 0
          /\ ~built[j].synthesized /\ Len(built[j].fields) > 0
    /\ Len(resolved.fields) = Len(FieldsToResolve(built))

(***************************************************************************)
(* C28: the three backends on one tree.                                    *)
(***************************************************************************)
\* The struct-likes the Go build made of the declarations of the file, in
\* the order of GetStructLikes.
GoDeclared == SelectSeq(built, LAMBDA b : ~b.synthesized)

\* The fields a backend inlines for field f: the fields of the structure its
\* resolver found, nothing when it found none.
TsExpandedFrom(f) ==
    IF TsGetReferencedStruct(ast, f) # Nil
    THEN Deref(ast, TsGetReferencedStruct(ast, f)).Fields ELSE <<>>
OaExpandedFrom(f) ==
    IF OaGetReferencedStruct(ast, f) # Nil
    THEN Deref(ast, OaGetReferencedStruct(ast, f)).Fields ELSE <<>>
GoExpandedFrom(g) ==
    [k \in 1..Len(g.expandedFields) |-> g.expandedFields[k].originalStructField]

AllBackendsBuilt ==
    /\ pc = "done" /\ tsScope # <<>> /\ oaScope # <<>>
    /\ Len(GoDeclared) = Len(GetStructLikes(ast))

\* C28: on one tree a field of a struct, union or exception is expanded by
\* the Go build exactly when the TypeScript and the OpenAPI build mark it
\* expanded, and then all three inline the fields of the same structure.
C28_BackendsExpandTheSameFields ==
    AllBackendsBuilt =>
        \A i \in 1..Len(GetStructLikes(ast)) :
            \A p \in 1..Len(GetStructLikes(ast)[i].Fields) :
                LET st == GetStructLikes(ast)[i]
                    f == st.Fields[p]
                    g == GoDeclared[i].fields[p]
                IN  /\ g.isExpandable <=> Marked(tsScope, st, f)
                    /\ g.isExpandable <=> Marked(oaScope, st, f)
                    /\ g.isExpandable =>
                          /\ GoExpandedFrom(g) = TsExpandedFrom(f)
                          /\ GoExpandedFrom(g) = OaExpandedFrom(f)

(***************************************************************************)
(* C29: Expanded Fields in a scope with an unused include.                 *)
(***************************************************************************)
HasUnusedInclude == \E k \in 1..Len(includes) : includes[k] = Nil

\* The error the deferred recover of Scope.init makes of a nil dereference.
RuntimeFailure ==
    buildErr = "err = runtime error: invalid memory address or nil pointer dereference"

\* C29: in a scope whose include list has an empty slot for an unused
\* include, the resolution of the Expanded Fields ends without a runtime
\* failure, also when the type of an Expanded Field is qualified.
C29_UnusedIncludeIsNoRuntimeFailure ==
    HasUnusedInclude => ~RuntimeFailure

\* Where no include slot is empty the resolution of Expanded Fields of a
\* qualified type does not fail.
C29_NoRuntimeFailureWithoutUnusedInclude ==
    ~HasUnusedInclude => ~RuntimeFailure

(***************************************************************************)
(* C30: expansion goes one level deep.                                     *)
(***************************************************************************)
\* The field is eligible for expansion where it is declared.
EligibleInGo(f) ==
    /\ IsStructLike(f.Type.Category)
    /\ GoGetReferencedStruct(ast, includes, f) # Nil
    /\ GoShouldExpand(f, GoReferencedOf(f))

\* Go: an expanded field has one Expanded Field per direct field of the
\* referenced structure, in order, and none of them is expanded in turn.
GoExpandsOneLevel ==
    \A i \in 1..Len(built) :
        \A p \in 1..Len(built[i].fields) :
            built[i].fields[p].isExpandable =>
                /\ GoExpandedFrom(built[i].fields[p]) = GoReferencedOf(built[i].fields[p].Field).Fields
                /\ \A k \in 1..Len(built[i].fields[p].expandedFields) :
                      /\ ~built[i].fields[p].expandedFields[k].isExpandable
                      /\ built[i].fields[p].expandedFields[k].expandedFields = <<>>

\* The direct fields of the structures the marked fields of a record refer to.
TsDirectFields(rec) ==
    Flatten([p \in 1..Len(rec.OriginalStruct.Fields) |->
                IF rec.OriginalStruct.Fields[p].Name \in rec.ExpandedFieldNames
                THEN TsExpandedFrom(rec.OriginalStruct.Fields[p]) ELSE <<>>])
OaDirectFields(rec) ==
    Flatten([p \in 1..Len(rec.OriginalStruct.Fields) |->
                IF rec.OriginalStruct.Fields[p].Name \in rec.ExpandedFieldNames
                THEN OaExpandedFrom(rec.OriginalStruct.Fields[p]) ELSE <<>>])

\* C30: the Expanded Fields of a field are the direct fields of the
\* referenced structure and nothing else; one of them that is itself
\* eligible for expansion stays one field and has no Expanded Fields.
C30_ExpansionIsOneLevelDeep ==
    /\ GoExpandsOneLevel
    /\ tsScope # <<>> =>
          \A n \in DOMAIN tsScope[1].ExpandedStructs :
              tsScope[1].ExpandedStructs[n].ExpandedFields
                  = TsDirectFields(tsScope[1].ExpandedStructs[n])
    /\ oaScope # <<>> =>
          \A n \in DOMAIN oaScope[1].ExpandedStructs :
              oaScope[1].ExpandedStructs[n].ExpandedFields
                  = OaDirectFields(oaScope[1].ExpandedStructs[n])

\* UserResp is built by all three backends, and the Expanded Field inner
\* of its field base is itself eligible for expansion.
C30_Witness ==
    /\ pc = "done" /\ tsScope # <<>> /\ oaScope # <<>>
    /\ \E i \in 1..Len(built) :
          \E p \in 1..Len(built[i].fields) :
              /\ built[i].fields[p].isExpandable
              /\ \E k \in 1..Len(built[i].fields[p].expandedFields) :
                    EligibleInGo(built[i].fields[p].expandedFields[k].originalStructField)
              /\ built[i].StructLike.Name \in DOMAIN tsScope[1].ExpandedStructs
              /\ built[i].StructLike.Name \in DOMAIN oaScope[1].ExpandedStructs

====
